---- MODULE Spec2Model ----
(***************************************************************************)
(* Version Store of brainmcp: the BadgerDB-backed MemoryVersionManager of  *)
(* src/version_manager.go.  Every db.Update runs its body in a transaction *)
(* that buffers the writes and applies them atomically at its commit; a    *)
(* body that returns an error, or a commit that fails, applies nothing.    *)
(* Where one caller at a time uses the store every call is one step; the   *)
(* sections on concurrent callers and on crashes split the calls and the   *)
(* store further.  The Filter Engine of src/search_filters.go reads the    *)
(* store; the Registry is the ContextManager of src/context.go, with its   *)
(* data in memory, the file that Save writes and its lock.                 *)
(*                                                                         *)
(* What the model leaves out of a call:                                    *)
(*  - strings are valid UTF-8, which json.Marshal keeps as they are;       *)
(*  - the timeNow() calls of one call fall within one instant;             *)
(*  - of the commits of one BatchCreateMemories or BatchDeleteMemories at  *)
(*    most one fails on its write to disk;                                 *)
(*  - the entry limit of a transaction is scaled down to TxnMaxEntries.    *)
(***************************************************************************)
EXTENDS Integers, Sequences, FiniteSets, TLC

\* ------------------------------------------------------------------ bounds
MaxClock == 1          \* timeNow() returns the instants 0..MaxClock
MaxVersions == 2       \* AddVersion is not called on a history this long
MaxHeld == 1           \* mutating calls made while an export is held
TxnMaxEntries == 3     \* entry limit of one transaction (badger's maxBatchCount)

\* ------------------------------------------------------------------ inputs
\* Keys the store can hold, in the byte order the iterator visits them.
KeyOrder == <<"m1", "m2">>
Keys == {KeyOrder[i] : i \in 1..Len(KeyOrder)}
\* Memory IDs a caller may pass: the key-value engine rejects the empty one.
IDs == Keys \cup {""}

\* Arguments of AddVersion: content, clientID, changeNote, context, tags.
W1 == [content |-> "hello", by |-> "alice", note |-> "init",
       ctx |-> "ctxA", tags |-> <<"x">>]
W2 == [content |-> "world", by |-> "bob", note |-> "update",
       ctx |-> "ctxB", tags |-> <<"y", "x">>]
\* The AddVersion calls made: memoryID and the other arguments.
AddVersionCalls == {[id |-> "m1", w |-> W1], [id |-> "m1", w |-> W2],
                    [id |-> "m2", w |-> W1], [id |-> "", w |-> W2]}

\* Memory-ID filters of ExportMemories; the empty filter selects every record.
ExportFilters == {<<>>, <<"m1">>}

\* Arguments of the batch operations.
BatchItems == {<<[id |-> "m1", w |-> W1], [id |-> "m2", w |-> W2]>>,
               <<[id |-> "m1", w |-> W2], [id |-> "", w |-> W1]>>}
BatchDeleteIDs == {<<"m1", "m2">>, <<"m2", "">>}
BatchTagIDs == {<<"m1", "m1", "m2">>, <<"m2", "">>}
TagLists == {<<"x", "z">>}

\* The zero time.Time, for which IsZero() holds: it is before every instant.
NoDate == -1

\* A SearchFilter without any criterion.
NoFilter == [context_id |-> "", tags |-> <<>>, tag_filter_mode |-> "",
             start_date |-> NoDate, end_date |-> NoDate, created_by |-> "",
             max_results |-> 0]

\* The SearchFilters passed to FilterMemories.
TagFilters == {[NoFilter EXCEPT !.tags = t, !.tag_filter_mode = m] :
                  t \in {<<"X", "z">>, <<"Y", "x">>}, m \in {"all", "any", "", "ALL"}}
Filters == TagFilters \cup
           {[NoFilter EXCEPT !.context_id = "ctxA"],
            [NoFilter EXCEPT !.context_id = "ctxB"],
            [NoFilter EXCEPT !.context_id = "ctxa"],
            [NoFilter EXCEPT !.max_results = 1],
            [NoFilter EXCEPT !.context_id = "ctxA", !.max_results = 1],
            [NoFilter EXCEPT !.start_date = 1],
            [NoFilter EXCEPT !.end_date = 0],
            [NoFilter EXCEPT !.created_by = "bob"]}

\* ------------------------------------------------------------------ values
NoTally == [total |-> 0, successful |-> 0, failed |-> 0, errors |-> <<>>]
NoRec == [absent |-> TRUE]
Tombstone == [deleted |-> TRUE]
NoWrites == [k \in {} |-> NoRec]

\* encoding/json decoding a JSON array into the slice dst that already has
\* elements: element i of the array is decoded into dst[i] in place, so the
\* backing array the caller still holds ends up with its first
\* min(len(stored), len(dst)) elements overwritten by the stored ones.
DecodeInto(dst, stored) ==
    [i \in 1..Len(dst) |-> IF i <= Len(stored) THEN stored[i] ELSE dst[i]]

\* The fields of MemoryWithHistory, each of them with a json tag and none
\* of them omitted when empty.
Fields == {"id", "current_version", "versions", "context", "tags",
           "created_at", "updated_at", "metadata"}

\* json.Marshal(history): the object with one member per field.
Marshal(history) == [f \in Fields |-> history[f]]

\* Unmarshal that decodes nothing.
UnmarshalNothing(val, history) == history

\* json.Unmarshal(val, history): a field that val has a member for takes the
\* member's value, and any other field of history keeps the one it had.
Unmarshal(val, history) ==
    [f \in DOMAIN history |-> IF f \in DOMAIN val THEN val[f] ELSE history[f]]

\* The zero value the readers decode into ("var history MemoryWithHistory").
ZeroHistory == [id |-> "", current_version |-> 0, versions |-> <<>>,
                context |-> "", tags |-> <<>>, created_at |-> 0,
                updated_at |-> 0, metadata |-> <<>>]

\* The MemoryVersion AddVersion appends.
NewVersion(history, w, t) ==
    [version_number |-> Len(history.versions) + 1,
     content |-> w.content,
     created_at |-> t,
     created_by |-> w.by,
     change_note |-> w.note]

\* The record the body of AddVersion stores, computed from the transaction's
\* view of the store.  ts holds the results of the timeNow() calls whose
\* values survive (lines 57, 78, 85).
AddVersionBody(view, id, w, ts) ==
    LET fresh == [id |-> id, current_version |-> 0, versions |-> <<>>,
                  context |-> w.ctx, tags |-> w.tags,
                  created_at |-> ts[1], updated_at |-> ts[1], metadata |-> <<>>]
        exists == id \in DOMAIN view
        history == IF exists THEN Unmarshal(view[id], fresh) ELSE fresh
        \* tags shares its backing array with fresh.tags
        tags == IF exists THEN DecodeInto(w.tags, view[id].tags) ELSE w.tags
        nv == NewVersion(history, w, ts[2])
    IN Marshal([history EXCEPT !.versions = Append(history.versions, nv),
                               !.current_version = nv.version_number,
                               !.updated_at = ts[3],
                               !.context = w.ctx,
                               !.tags = tags])

\* ------------------------------------------------------------------ state
VARIABLES
    db,        \* the committed store: memory ID -> MemoryWithHistory
    clock,     \* the latest instant timeNow() has returned
    exported,  \* the ExportData the latest ExportMemories returned
    last,      \* the call that has just returned, with what it returned
    calls,     \* per caller, the call it is in the middle of
    stable,    \* the part of the store that has reached stable storage
    reg,       \* the Registry: the data of the ContextManager in memory
    file,      \* what the file of the Registry holds
    mu         \* the lock of the ContextManager: its readers and its writer

vars == <<db, clock, exported, last, calls, stable, reg, file, mu>>

\* The goroutines that call the store at the same time.
Callers == {"p1", "p2"}

NoExport == [made |-> FALSE, include |-> FALSE, ids |-> <<>>, held |-> 0,
             memories |-> <<>>]

NoWrite == [content |-> "", by |-> "", note |-> "", ctx |-> "", tags |-> <<>>]

\* The stats of GetContextStats before its loop: no tags, nil for the oldest
\* and the newest memory.
NoStats == [context_id |-> "", memory_count |-> 0, unique_tags |-> <<>>,
            oldest_memory |-> NoDate, newest_memory |-> NoDate,
            total_characters |-> 0]

\* What the last call returned; scanned tells whether a call of the Filter
\* Engine has read the histories of the store.
NoReturn == [op |-> "none", id |-> "", w |-> NoWrite, ids |-> <<>>, tags |-> <<>>,
             err |-> "nil", res |-> NoTally, filter |-> NoFilter, results |-> <<>>,
             got |-> NoWrites, stats |-> NoStats, scanned |-> FALSE]

\* The Registry a new ContextManager holds when no file is there to load:
\* the default context and no tags (initializeDefaults).
DefaultContextID == "general"

NewContext(id, name, t) ==
    [id |-> id, name |-> name, created_at |-> t, updated_at |-> t,
     memory_count |-> 0, tags |-> <<>>]

\* The data of a ContextManager before Load: three empty maps.
EmptyRegistry ==
    [contexts |-> [k \in {} |-> NoRec], tags |-> [k \in {} |-> NoRec],
     sessions |-> [k \in {} |-> NoRec]]

DefaultRegistry ==
    [EmptyRegistry EXCEPT
        !.contexts = [k \in {DefaultContextID} |-> NewContext(k, "General", 0)]]

\* The file of the Registry: not there, or cut short by a write that did not
\* finish (empty after the truncation, or the first part of the new text).
NoFile == [absent |-> TRUE]
PartialFile == [partial |-> TRUE]

\* The RWMutex with no holder.
NoCaller == "none"
Unlocked == [readers |-> {}, writer |-> NoCaller]

\* A caller that is not in a call.  Of a call in progress: its arguments,
\* the keys its transaction has read with what it has read for them, whether
\* a key it has read was committed by another transaction since, and of a
\* loop of transactions the items done, the tally so far and the number of
\* its items that had succeeded when a scan last read the store.
NoCall == [op |-> "idle", id |-> "", w |-> NoWrite, ids |-> <<>>, tags |-> <<>>,
           items |-> <<>>, read |-> {}, view |-> NoWrites, conflict |-> FALSE,
           done |-> 0, res |-> NoTally, scanned |-> 0, pc |-> "", handler |-> ""]

Init ==
    /\ db = NoWrites
    /\ clock = 0
    /\ exported = NoExport
    /\ last = NoReturn
    /\ calls = [p \in Callers |-> NoCall]
    /\ stable = NoWrites
    /\ reg = DefaultRegistry
    /\ file = NoFile
    /\ mu = Unlocked

\* ------------------------------------------------------------ transactions
\* The store after the buffered writes w of a transaction are applied.
Apply(store, w) ==
    LET dead == {k \in DOMAIN w : w[k] = Tombstone}
        keep == (DOMAIN store \cup DOMAIN w) \ dead
    IN [k \in keep |-> IF k \in DOMAIN w THEN w[k] ELSE store[k]]

\* The buffered writes w with key k set to v.
Buffer(w, k, v) == [j \in DOMAIN w \cup {k} |-> IF j = k THEN v ELSE w[j]]

\* txn.Get, txn.Set and txn.Delete reject the empty key with ErrEmptyKey.
KeyErr(id) == IF id = "" THEN "ErrEmptyKey" ELSE "nil"

\* txn.Set fails with ErrTxnTooBig when the transaction holds count entries
\* and one more reaches the limit.
TooBig(count) == count + 1 >= TxnMaxEntries

\* What db.Update returns for a body that returned bodyErr and buffered the
\* writes w: the body's error, or the commit's, which fails when the write
\* to disk does (io).  A transaction without writes commits trivially.
UpdateErr(bodyErr, w, io) ==
    IF bodyErr # "nil" THEN bodyErr
    ELSE IF DOMAIN w # {} /\ io THEN "ErrIO"
    ELSE "nil"

\* Update with the buffered writes applied whatever db.Update returned.
UpdateEitherWay(store, w, err) == Apply(store, w)

\* The store after a db.Update that returned err.
Update(store, w, err) == IF err = "nil" THEN Apply(store, w) ELSE store

\* The results of the n timeNow() calls of one call: time never goes
\* backwards, and one call falls within one instant of the clock.
Times(n) == {[i \in 1..n |-> t] : t \in clock..MaxClock}

\* The disk outcomes of n successive commits: at most one write fails.
Outcomes(n) == {[i \in 1..n |-> i = k] : k \in 0..n}

\* The holder of an export has made one more mutating call.
Held == [exported EXCEPT !.held = IF exported.made THEN @ + 1 ELSE @]

\* ------------------------------------------------------------------ reads
\* GetHistory(id) and GetVersion(id, n) run in a read-only transaction and
\* change nothing: each is the function of the committed store it returns.
\* Every failure of txn.Get is reported as "memory %q not found".
GetHistory(store, id) ==
    IF id \in DOMAIN store
    THEN [err |-> "nil", rec |-> Unmarshal(store[id], ZeroHistory)]
    ELSE [err |-> "not_found", rec |-> NoRec]

GetVersion(store, id, n) ==
    IF id \notin DOMAIN store THEN [err |-> "not_found", rec |-> NoRec]
    ELSE LET history == Unmarshal(store[id], ZeroHistory) IN
         IF n < 1 \/ n > Len(history.versions)
         THEN [err |-> "version_not_found", rec |-> NoRec]
         ELSE [err |-> "nil", rec |-> history.versions[n]]

\* ------------------------------------------------------------- AddVersion
\* What AddVersion does to the store and returns: txn.Get fails for the
\* empty key with an error that is not ErrKeyNotFound, which ends the body.
AddVersionResult(store, id, w, ts, io) ==
    LET bodyErr == KeyErr(id)
        writes == IF bodyErr = "nil"
                  THEN Buffer(NoWrites, id, AddVersionBody(store, id, w, ts))
                  ELSE NoWrites
        err == UpdateErr(bodyErr, writes, io)
    IN [err |-> err, store |-> Update(store, writes, err)]

AddVersion(id, w) ==
    /\ exported.held < MaxHeld
    /\ id \in DOMAIN db => Len(db[id].versions) < MaxVersions
    /\ \E ts \in Times(3), io \in BOOLEAN :
       \E r \in {AddVersionResult(db, id, w, ts, io)} :
       /\ db' = r.store
       /\ clock' = ts[3]
       /\ last' = [NoReturn EXCEPT !.op = "AddVersion", !.id = id, !.w = w,
                                   !.err = r.err]
    /\ exported' = Held

\* ----------------------------------------------------- DeleteMemoryHistory
\* What DeleteMemoryHistory does to the store and returns: txn.Delete
\* buffers a delete marker without looking the key up, so that it never
\* returns ErrKeyNotFound.
DeleteResult(store, id, io) ==
    LET bodyErr == KeyErr(id)
        writes == IF bodyErr = "nil" THEN Buffer(NoWrites, id, Tombstone)
                  ELSE NoWrites
        err == UpdateErr(bodyErr, writes, io)
    IN [err |-> err, store |-> Update(store, writes, err)]

DeleteMemoryHistory(id) ==
    /\ exported.held < MaxHeld
    /\ \E io \in BOOLEAN :
       \E r \in {DeleteResult(db, id, io)} :
       /\ db' = r.store
       /\ last' = [NoReturn EXCEPT !.op = "DeleteMemoryHistory", !.id = id,
                                   !.err = r.err]
    /\ exported' = Held
    /\ UNCHANGED clock

\* ---------------------------------------------------------- ExportMemories
\* ExportVersions with the history compacted whatever includeVersions is.
ExportVersionsCompacted(history, includeVersions) ==
    IF Len(history.versions) > 0
    THEN <<history.versions[Len(history.versions)]>>
    ELSE history.versions

\* ExportVersions with the first version kept in place of the latest.
ExportVersionsOldest(history, includeVersions) ==
    IF ~includeVersions /\ Len(history.versions) > 0
    THEN <<history.versions[1]>>
    ELSE history.versions

\* The version list of an exported record.
ExportVersions(history, includeVersions) ==
    IF ~includeVersions /\ Len(history.versions) > 0
    THEN <<history.versions[Len(history.versions)]>>
    ELSE history.versions

\* Whether the iterator's key passes the memoryIDs filter.
Selected(memoryIDs, key) ==
    Len(memoryIDs) > 0 => \E j \in 1..Len(memoryIDs) : memoryIDs[j] = key

\* export.Memories: the selected records in the iterator's key order.
ExportOf(store, memoryIDs, includeVersions) ==
    LET F[i \in 0..Len(KeyOrder)] ==
            IF i = 0 THEN <<>>
            ELSE IF KeyOrder[i] \in DOMAIN store /\ Selected(memoryIDs, KeyOrder[i])
                 THEN LET history == Unmarshal(store[KeyOrder[i]], ZeroHistory)
                      IN Append(F[i - 1],
                            [history EXCEPT !.versions =
                                ExportVersions(history, includeVersions)])
                 ELSE F[i - 1]
    IN F[Len(KeyOrder)]

ExportMemories(memoryIDs, includeVersions) ==
    /\ exported' = [made |-> TRUE, include |-> includeVersions, ids |-> memoryIDs,
                    held |-> 0,
                    memories |-> ExportOf(db, memoryIDs, includeVersions)]
    /\ clock' \in clock..MaxClock
    /\ last' = [NoReturn EXCEPT !.op = "ExportMemories"]
    /\ UNCHANGED db

\* ---------------------------------------------------------- ImportMemories
\* ImportBody with a record kept when its ID was already set by the import.
ImportBodyFirstWins(memories) ==
    LET F[i \in 0..Len(memories)] ==
            IF i = 0 THEN [writes |-> NoWrites, count |-> 0, err |-> "nil"]
            ELSE LET acc == F[i - 1]
                     m == memories[i]
                 IN IF acc.err # "nil" THEN acc
                    ELSE IF KeyErr(m.id) # "nil" THEN [acc EXCEPT !.err = KeyErr(m.id)]
                    ELSE IF TooBig(acc.count) THEN [acc EXCEPT !.err = "ErrTxnTooBig"]
                    ELSE [writes |-> IF m.id \in DOMAIN acc.writes THEN acc.writes
                                     ELSE Buffer(acc.writes, m.id, Marshal(m)),
                          count |-> acc.count + 1,
                          err |-> "nil"]
    IN F[Len(memories)]

\* The body of ImportMemories: the buffered writes and the error after the
\* memories of the export have been set in order.
ImportBody(memories) ==
    LET F[i \in 0..Len(memories)] ==
            IF i = 0 THEN [writes |-> NoWrites, count |-> 0, err |-> "nil"]
            ELSE LET acc == F[i - 1]
                     m == memories[i]
                 IN IF acc.err # "nil" THEN acc
                    ELSE IF KeyErr(m.id) # "nil" THEN [acc EXCEPT !.err = KeyErr(m.id)]
                    ELSE IF TooBig(acc.count) THEN [acc EXCEPT !.err = "ErrTxnTooBig"]
                    ELSE [writes |-> Buffer(acc.writes, m.id, Marshal(m)),
                          count |-> acc.count + 1,
                          err |-> "nil"]
    IN F[Len(memories)]

ImportResult(store, memories, io) ==
    LET body == ImportBody(memories)
        err == UpdateErr(body.err, body.writes, io)
    IN [err |-> err, store |-> Update(store, body.writes, err)]

ImportMemories ==
    /\ exported.made
    /\ \E io \in BOOLEAN :
       \E r \in {ImportResult(db, exported.memories, io)} :
       /\ db' = r.store
       /\ last' = [NoReturn EXCEPT !.op = "ImportMemories", !.err = r.err]
    /\ UNCHANGED <<clock, exported>>

\* Records of an ExportData the caller has put together: m1 with one and
\* with two versions, m2, and a record without an ID.
HandMade1 == AddVersionBody(NoWrites, "m1", W2, <<0, 0, 0>>)
HandMade2 == AddVersionBody(Buffer(NoWrites, "m1", HandMade1), "m1", W1, <<0, 0, 0>>)
HandMadeOther == AddVersionBody(NoWrites, "m2", W1, <<0, 0, 0>>)
HandMadeNoID == [HandMade1 EXCEPT !.id = ""]
ImportLists == {<<HandMade1, HandMade2>>, <<HandMade2, HandMade1>>,
                <<HandMadeOther, HandMade1>>, <<HandMade1, HandMadeNoID>>,
                <<HandMade1, HandMadeOther, HandMade2>>}

\* ImportMemories called with an ExportData the caller has put together,
\* which the caller keeps.
ImportData(memories) ==
    /\ \E io \in BOOLEAN :
       \E r \in {ImportResult(db, memories, io)} :
       /\ db' = r.store
       /\ last' = [NoReturn EXCEPT !.op = "ImportMemories", !.err = r.err]
    /\ exported' = [NoExport EXCEPT !.memories = memories]
    /\ UNCHANGED clock

\* ----------------------------------------------------- BatchCreateMemories
\* The tally with one more failed item and its error string.
Fail(res, what, id, err) ==
    [res EXCEPT !.failed = @ + 1,
                !.errors = Append(@, [what |-> what, id |-> id, err |-> err])]

Succeed(res) == [res EXCEPT !.successful = @ + 1]

\* The loop of BatchCreateMemories: one AddVersion, a transaction of its
\* own, per item.  ts holds three instants and ios one disk outcome per item.
BatchCreateResult(store, items, ts, ios) ==
    LET F[i \in 0..Len(items)] ==
            IF i = 0
            THEN [store |-> store, res |-> [NoTally EXCEPT !.total = Len(items)]]
            ELSE LET acc == F[i - 1]
                     r == AddVersionResult(acc.store, items[i].id,
                              [items[i].w EXCEPT !.note = "Batch import"],
                              <<ts[3 * i - 2], ts[3 * i - 1], ts[3 * i]>>, ios[i])
                 IN [store |-> r.store,
                     res |-> IF r.err # "nil"
                             THEN Fail(acc.res, "Failed to create", items[i].id, r.err)
                             ELSE Succeed(acc.res)]
    IN [store |-> F[Len(items)].store, res |-> F[Len(items)].res, err |-> "nil"]

\* The versions the items add to id.
Adds(items, id) == Cardinality({i \in 1..Len(items) : items[i].id = id})

IDsOf(items) == [i \in 1..Len(items) |-> items[i].id]

BatchCreateMemories(items) ==
    /\ exported.held < MaxHeld
    /\ \A id \in DOMAIN db : Len(db[id].versions) + Adds(items, id) <= MaxVersions
    /\ \E ts \in Times(3 * Len(items)), ios \in Outcomes(Len(items)) :
       \E r \in {BatchCreateResult(db, items, ts, ios)} :
       /\ db' = r.store
       /\ clock' = ts[3 * Len(items)]
       /\ last' = [NoReturn EXCEPT !.op = "BatchCreateMemories",
                                   !.ids = IDsOf(items), !.err = r.err, !.res = r.res]
    /\ exported' = Held

\* ----------------------------------------------------- BatchDeleteMemories
\* The loop of BatchDeleteMemories: one DeleteMemoryHistory, a transaction
\* of its own, per ID.
BatchDeleteResult(store, ids, ios) ==
    LET F[i \in 0..Len(ids)] ==
            IF i = 0
            THEN [store |-> store, res |-> [NoTally EXCEPT !.total = Len(ids)]]
            ELSE LET acc == F[i - 1]
                     r == DeleteResult(acc.store, ids[i], ios[i])
                 IN [store |-> r.store,
                     res |-> IF r.err # "nil"
                             THEN Fail(acc.res, "Failed to delete", ids[i], r.err)
                             ELSE Succeed(acc.res)]
    IN [store |-> F[Len(ids)].store, res |-> F[Len(ids)].res, err |-> "nil"]

BatchDeleteMemories(ids) ==
    /\ exported.held < MaxHeld
    /\ \E ios \in Outcomes(Len(ids)) :
       \E r \in {BatchDeleteResult(db, ids, ios)} :
       /\ db' = r.store
       /\ last' = [NoReturn EXCEPT !.op = "BatchDeleteMemories", !.ids = ids,
                                   !.err = r.err, !.res = r.res]
    /\ exported' = Held
    /\ UNCHANGED clock

\* ------------------------------------------- BatchAddTags, BatchRemoveTags
Has(seq, x) == \E j \in 1..Len(seq) : seq[j] = x

\* "Add new tags (dedup)": each tag that is not yet in the list is appended.
AddTags(existing, tags) ==
    LET F[i \in 0..Len(tags)] ==
            IF i = 0 THEN existing
            ELSE IF Has(F[i - 1], tags[i]) THEN F[i - 1]
                 ELSE Append(F[i - 1], tags[i])
    IN F[Len(tags)]

\* "Remove tags": the existing tags that are not among tags, in order.
RemoveTags(existing, tags) ==
    LET F[i \in 0..Len(existing)] ==
            IF i = 0 THEN <<>>
            ELSE IF Has(tags, existing[i]) THEN F[i - 1]
                 ELSE Append(F[i - 1], existing[i])
    IN F[Len(existing)]

\* The body of the one transaction of BatchAddTags (remove = FALSE) and of
\* BatchRemoveTags (remove = TRUE): txn.Get sees the transaction's own
\* writes; the error of txn.Set is dropped and the item counted successful.
\* stamped tells whether the body has called timeNow().
BatchTagsBody(view, ids, tags, remove, ts) ==
    LET F[i \in 0..Len(ids)] ==
            IF i = 0
            THEN [writes |-> NoWrites, count |-> 0, err |-> "nil",
                  stamped |-> FALSE,
                  res |-> [NoTally EXCEPT !.total = Len(ids)]]
            ELSE LET acc == F[i - 1]
                     id == ids[i]
                     found == id \in DOMAIN acc.writes \cup DOMAIN view
                     val == IF id \in DOMAIN acc.writes THEN acc.writes[id]
                            ELSE view[id]
                     history == [Unmarshal(val, ZeroHistory) EXCEPT
                                   !.tags = IF remove THEN RemoveTags(@, tags)
                                            ELSE AddTags(@, tags),
                                   !.updated_at = ts[i]]
                 IN IF acc.err # "nil" THEN acc
                    ELSE IF KeyErr(id) # "nil" THEN [acc EXCEPT !.err = KeyErr(id)]
                    ELSE IF ~found
                         THEN [acc EXCEPT !.res = Fail(@, "Memory not found", id, "")]
                    ELSE IF TooBig(acc.count)
                         THEN [acc EXCEPT !.stamped = TRUE, !.res = Succeed(@)]
                    ELSE [acc EXCEPT !.writes = Buffer(@, id, Marshal(history)),
                                     !.count = @ + 1,
                                     !.stamped = TRUE,
                                     !.res = Succeed(@)]
    IN F[Len(ids)]

\* BatchTagsResult with the tally left as the body made it.
BatchTagsResultAsCounted(store, ids, tags, remove, ts, io) ==
    LET body == BatchTagsBody(store, ids, tags, remove, ts)
        err == UpdateErr(body.err, body.writes, io)
    IN [store |-> Update(store, body.writes, err),
        err |-> err,
        stamped |-> body.stamped,
        res |-> body.res]

\* What the batch returns and does to the store: a failed db.Update turns
\* the whole tally into failures.
BatchTagsResult(store, ids, tags, remove, ts, io) ==
    LET body == BatchTagsBody(store, ids, tags, remove, ts)
        err == UpdateErr(body.err, body.writes, io)
    IN [store |-> Update(store, body.writes, err),
        err |-> err,
        stamped |-> body.stamped,
        res |-> IF err # "nil"
                THEN [body.res EXCEPT !.failed = Len(ids), !.successful = 0]
                ELSE body.res]

BatchTags(op, ids, tags, remove) ==
    /\ exported.held < MaxHeld
    /\ \E ts \in Times(Len(ids)), io \in BOOLEAN :
       \E r \in {BatchTagsResult(db, ids, tags, remove, ts, io)} :
       /\ db' = r.store
       /\ clock' = IF r.stamped THEN ts[Len(ids)] ELSE clock
       /\ last' = [NoReturn EXCEPT !.op = op, !.ids = ids, !.tags = tags,
                                   !.err = r.err, !.res = r.res]
    /\ exported' = Held

BatchAddTags(ids, tags) == BatchTags("BatchAddTags", ids, tags, FALSE)

BatchRemoveTags(ids, tags) == BatchTags("BatchRemoveTags", ids, tags, TRUE)

\* ---------------------------------------------------------- FilterMemories
\* GetAllHistories: the map from every key of the store to its decoded record.
GetAllHistories(store) == [k \in DOMAIN store |-> Unmarshal(store[k], ZeroHistory)]

\* The lower-case form of the letters the tags are made of.
Lower == [x |-> "x", y |-> "y", z |-> "z", X |-> "x", Y |-> "y", Z |-> "z"]

\* EqualFold that tells upper case from lower case.
EqualExactly(s, t) == s = t

\* strings.EqualFold on tags: equal under case folding.
EqualFold(s, t) ==
    (IF s \in DOMAIN Lower THEN Lower[s] ELSE s) = (IF t \in DOMAIN Lower THEN Lower[t] ELSE t)

\* Whether some tag of memTags is filterTag under case folding.
HasTag(memTags, filterTag) == \E j \in 1..Len(memTags) : EqualFold(memTags[j], filterTag)

\* The tag criterion of FilterMemories.
TagsMatch(history, filter) ==
    Len(filter.tags) > 0 =>
        IF filter.tag_filter_mode = "all"
        THEN \A i \in 1..Len(filter.tags) : HasTag(history.tags, filter.tags[i])
        ELSE \E i \in 1..Len(filter.tags) : HasTag(history.tags, filter.tags[i])

\* Matches with the author of the latest version.
MatchesLatestAuthor(history, filter) ==
    /\ ~(filter.context_id # "" /\ history.context # filter.context_id)
    /\ ~(filter.start_date # NoDate /\ history.created_at < filter.start_date)
    /\ ~(filter.end_date # NoDate /\ history.updated_at > filter.end_date)
    /\ ~(filter.created_by # "" /\ Len(history.versions) > 0
            /\ history.versions[Len(history.versions)].created_by # filter.created_by)
    /\ TagsMatch(history, filter)

\* Matches with the bounds of the date range left out of the range.
MatchesInsideDates(history, filter) ==
    /\ ~(filter.context_id # "" /\ history.context # filter.context_id)
    /\ ~(filter.start_date # NoDate /\ history.created_at <= filter.start_date)
    /\ ~(filter.end_date # NoDate /\ history.updated_at >= filter.end_date)
    /\ ~(filter.created_by # "" /\ Len(history.versions) > 0
            /\ history.versions[1].created_by # filter.created_by)
    /\ TagsMatch(history, filter)

\* The criteria of FilterMemories that a record has to pass.
Matches(history, filter) ==
    /\ ~(filter.context_id # "" /\ history.context # filter.context_id)
    /\ ~(filter.start_date # NoDate /\ history.created_at < filter.start_date)
    /\ ~(filter.end_date # NoDate /\ history.updated_at > filter.end_date)
    /\ ~(filter.created_by # "" /\ Len(history.versions) > 0
            /\ history.versions[1].created_by # filter.created_by)
    /\ TagsMatch(history, filter)

\* ResultOf with the content of the first version.
ResultOfFirstVersion(memoryID, history) ==
    [id |-> memoryID,
     content |-> history.versions[1].content,
     similarity |-> 1,
     context |-> history.context,
     tags |-> history.tags,
     current_version |-> history.current_version,
     created_at |-> history.created_at,
     updated_at |-> history.updated_at,
     metadata |-> history.metadata]

\* The SearchResult of a record that passed.
ResultOf(memoryID, history) ==
    [id |-> memoryID,
     content |-> history.versions[Len(history.versions)].content,
     similarity |-> 1,
     context |-> history.context,
     tags |-> history.tags,
     current_version |-> history.current_version,
     created_at |-> history.created_at,
     updated_at |-> history.updated_at,
     metadata |-> history.metadata]

\* Limit that cuts nothing off.
Unlimited(seq, n) == seq

\* The first n elements of seq, all of them when n = 0.
Limit(seq, n) == IF n > 0 /\ Len(seq) > n THEN SubSeq(seq, 1, n) ELSE seq

\* FilterMemories when the range over the map of histories visits its keys
\* in the order given.
FilterResults(histories, order, filter) ==
    LET F[i \in 0..Len(order)] ==
            IF i = 0 THEN <<>>
            ELSE LET history == histories[order[i]] IN
                 IF Matches(history, filter) /\ Len(history.versions) > 0
                 THEN Append(F[i - 1], ResultOf(order[i], history))
                 ELSE F[i - 1]
    IN Limit(F[Len(order)], filter.max_results)

\* The orders in which a range over a Go map with the keys S may visit them:
\* the language leaves the order open and the runtime varies it per loop.
Orders(S) ==
    {o \in [1..Cardinality(S) -> S] : \A i, j \in 1..Cardinality(S) : o[i] = o[j] => i = j}

FilterMemories(filter) ==
    /\ \E order \in Orders(DOMAIN db) :
         last' = [NoReturn EXCEPT !.op = "FilterMemories", !.filter = filter,
                     !.scanned = TRUE,
                     !.results = FilterResults(GetAllHistories(db), order, filter)]
    /\ UNCHANGED <<db, clock, exported>>

\* --------------------------------------------------------- GetContextStats
\* The contents written while statistics are taken, and len() of each: the
\* number of bytes of the string.
W3 == [content |-> "hi", by |-> "alice", note |-> "init",
       ctx |-> "ctxA", tags |-> <<"X">>]
StatsCalls == {[id |-> "m1", w |-> W1], [id |-> "m1", w |-> W2],
               [id |-> "m2", w |-> W3], [id |-> "m2", w |-> W2]}
StatsContextIDs == {"ctxA", "ctxB", "ctxC"}
len == ("hello" :> 5) @@ ("world" :> 5) @@ ("hi" :> 2)

\* The cap on the results that GetContextStats asks for.
StatsMaxResults == 10000

\* SearchByContext when the range of FilterMemories takes the order given.
SearchByContext(histories, order, contextID, maxResults) ==
    FilterResults(histories, order,
                  [NoFilter EXCEPT !.context_id = contextID, !.max_results = maxResults])

\* The keys of the tagMap after the loop: tagMap[tag] = true for every tag
\* of every memory, the tag as it is written.
TagMap(memories) ==
    UNION {{memories[i].tags[j] : j \in 1..Len(memories[i].tags)} :
           i \in 1..Len(memories)}

\* The stats after the loop over the memories, unique_tags apart.
StatsFold(memories, contextID) ==
    LET F[i \in 0..Len(memories)] ==
            IF i = 0
            THEN [NoStats EXCEPT !.context_id = contextID,
                                 !.memory_count = Len(memories)]
            ELSE LET mem == memories[i]
                     acc == F[i - 1] IN
                 [acc EXCEPT
                    !.oldest_memory =
                        IF acc.oldest_memory = NoDate \/ mem.created_at < acc.oldest_memory
                        THEN mem.created_at ELSE acc.oldest_memory,
                    !.newest_memory =
                        IF acc.newest_memory = NoDate \/ mem.updated_at > acc.newest_memory
                        THEN mem.updated_at ELSE acc.newest_memory,
                    !.total_characters = acc.total_characters + len[mem.content]]
    IN F[Len(memories)]

\* GetContextStats: the ranges over the histories and over the tagMap each
\* take one of the orders open to a range over a map.
GetContextStats(contextID) ==
    /\ \E order \in Orders(DOMAIN db) :
       \E memories \in {SearchByContext(GetAllHistories(db), order, contextID,
                                        StatsMaxResults)} :
       \E tagOrder \in Orders(TagMap(memories)) :
         last' = [NoReturn EXCEPT
                    !.op = "GetContextStats", !.id = contextID, !.scanned = TRUE,
                    !.stats = [StatsFold(memories, contextID) EXCEPT
                                 !.unique_tags = tagOrder]]
    /\ UNCHANGED <<db, clock, exported>>

\* ---------------------------------------------------------------- Registry
\* The ContextManager of src/context.go: contexts by ID and tags by name,
\* under one lock, written to a file by Save at the end of every change.

ContextIDs == {"ctxA", "ctxa", DefaultContextID}
ContextNames == {"n1"}
TagNames == {"x", "X", " X", " ", "y"}
TagDescriptions == {"d1"}

\* ToLower that keeps the case.
ToLowerKept(s) == s

\* strings.ToLower and strings.TrimSpace on the names above.
ToLower(s) ==
    IF s \in DOMAIN Lower THEN Lower[s] ELSE IF s = " X" THEN " x" ELSE s

TrimSpace(s) ==
    CASE s = " X" -> "X"
      [] s = " x" -> "x"
      [] s = " " -> ""
      [] OTHER -> s

\* Save: the write of the file fails (io) or not.
Save(io) == IF io THEN "ErrIO" ELSE "nil"

Without(f, k) == [j \in DOMAIN f \ {k} |-> f[j]]

CreateContextResult(r, id, name, t, io) ==
    IF id \in DOMAIN r.contexts THEN [err |-> "already_exists", reg |-> r]
    ELSE [err |-> Save(io),
          reg |-> [r EXCEPT !.contexts = Buffer(@, id, NewContext(id, name, t))]]

GetContextResult(r, id) ==
    IF id \in DOMAIN r.contexts THEN [err |-> "nil", rec |-> r.contexts[id]]
    ELSE [err |-> "not_found", rec |-> NoRec]

DeleteContextResult(r, id, io) ==
    IF id = DefaultContextID THEN [err |-> "cannot_delete_default", reg |-> r]
    ELSE IF id \notin DOMAIN r.contexts THEN [err |-> "not_found", reg |-> r]
    ELSE [err |-> Save(io), reg |-> [r EXCEPT !.contexts = Without(@, id)]]

CreateTagResult(r, given, description, io) ==
    LET name == ToLower(TrimSpace(given)) IN
    IF name = "" THEN [err |-> "empty_name", reg |-> r]
    ELSE IF name \in DOMAIN r.tags THEN [err |-> "already_exists", reg |-> r]
    ELSE [err |-> Save(io),
          reg |-> [r EXCEPT !.tags =
                      Buffer(@, name, [name |-> name, description |-> description,
                                       color |-> "", memory_count |-> 0])]]

GetTagResult(r, given) ==
    LET name == ToLower(given) IN
    IF name \in DOMAIN r.tags THEN [err |-> "nil", rec |-> r.tags[name]]
    ELSE [err |-> "not_found", rec |-> NoRec]

DeleteTagResult(r, given, io) ==
    LET name == ToLower(given) IN
    IF name \notin DOMAIN r.tags THEN [err |-> "not_found", reg |-> r]
    ELSE [err |-> Save(io), reg |-> [r EXCEPT !.tags = Without(@, name)]]

\* json.MarshalIndent of the data: the text of the file, with the format
\* version, and what json.Unmarshal decodes from it into the data r, whose
\* maps keep the entries that the text does not name.
MarshalIndent(r) ==
    [contexts |-> r.contexts, tags |-> r.tags, sessions |-> r.sessions,
     version |-> "1.0"]

UnmarshalData(text, r) ==
    [contexts |-> Apply(r.contexts, text.contexts),
     tags |-> Apply(r.tags, text.tags),
     sessions |-> Apply(r.sessions, text.sessions)]

\* The file after the call with the result r: Save has written the data, or
\* os.WriteFile has failed, before it opened the file or after it truncated
\* it, or the call has returned before Save.
WriteFile(f, r) ==
    IF r.err = "nil" THEN {MarshalIndent(r.reg)}
    ELSE IF r.err = "ErrIO" THEN {f, PartialFile}
    ELSE {f}

\* A change of the Registry by the call op with the key id that results in r.
RegistryCall(op, id, r) ==
    /\ reg' = r.reg
    /\ file' \in WriteFile(file, r)
    /\ last' = [NoReturn EXCEPT !.op = op, !.id = id, !.err = r.err]
    /\ UNCHANGED <<db, exported, calls, stable, mu>>

CreateContext(id, name) ==
    \E ts \in Times(2), io \in BOOLEAN :
        /\ RegistryCall("CreateContext", id, CreateContextResult(reg, id, name, ts[2], io))
        /\ clock' = IF id \in DOMAIN reg.contexts THEN clock ELSE ts[2]

DeleteContext(id) ==
    /\ \E io \in BOOLEAN :
         RegistryCall("DeleteContext", id, DeleteContextResult(reg, id, io))
    /\ UNCHANGED clock

CreateTag(name, description) ==
    /\ \E io \in BOOLEAN :
         RegistryCall("CreateTag", name, CreateTagResult(reg, name, description, io))
    /\ UNCHANGED clock

DeleteTag(name) ==
    /\ \E io \in BOOLEAN :
         RegistryCall("DeleteTag", name, DeleteTagResult(reg, name, io))
    /\ UNCHANGED clock

\* ---------------------------------------------------------------- sessions
\* The client sessions of the ContextManager, by client ID.
ClientIDs == {"c1"}
SessionContextIDs == {"ctxA", DefaultContextID}
MaxConcurrentClients == 100

NewSession(clientID, t) ==
    [client_id |-> clientID, current_context |-> DefaultContextID,
     created_at |-> t, last_activity |-> t, shared_with |-> <<>>]

\* RegisterSession puts a new session under clientID, whether or not one is
\* there.
RegisterSessionResult(r, clientID, t, io) ==
    IF Cardinality(DOMAIN r.sessions) >= MaxConcurrentClients
    THEN [err |-> "max_clients", reg |-> r]
    ELSE [err |-> Save(io),
          reg |-> [r EXCEPT !.sessions = Buffer(@, clientID, NewSession(clientID, t))]]

UnregisterSessionResult(r, clientID, io) ==
    IF clientID \notin DOMAIN r.sessions THEN [err |-> "session_not_found", reg |-> r]
    ELSE [err |-> Save(io), reg |-> [r EXCEPT !.sessions = Without(@, clientID)]]

GetSessionResult(r, clientID) ==
    IF clientID \in DOMAIN r.sessions
    THEN [err |-> "nil", rec |-> r.sessions[clientID]]
    ELSE [err |-> "session_not_found", rec |-> NoRec]

SwitchContextResult(r, clientID, contextID, t, io) ==
    IF clientID \notin DOMAIN r.sessions THEN [err |-> "session_not_found", reg |-> r]
    ELSE IF contextID \notin DOMAIN r.contexts THEN [err |-> "not_found", reg |-> r]
    ELSE [err |-> Save(io),
          reg |-> [r EXCEPT !.sessions[clientID].current_context = contextID,
                            !.sessions[clientID].last_activity = t]]

\* GetClientContext when nothing runs between its steps: the context of the
\* session, or the default context after it has registered the client,
\* whatever RegisterSession returns.
GetClientContextResult(r, clientID, t, io) ==
    IF clientID \in DOMAIN r.sessions
    THEN [err |-> "nil", context |-> r.sessions[clientID].current_context, reg |-> r,
          saved |-> "none"]
    ELSE LET registered == RegisterSessionResult(r, clientID, t, io) IN
         [err |-> "nil", context |-> DefaultContextID, reg |-> registered.reg,
          saved |-> registered.err]

\* ShareContext appends contextID to the shared_with of the target session.
ShareContextResult(r, targetClientID, contextID, io) ==
    IF contextID \notin DOMAIN r.contexts THEN [err |-> "not_found", reg |-> r]
    ELSE IF targetClientID \notin DOMAIN r.sessions
    THEN [err |-> "session_not_found", reg |-> r]
    ELSE IF \E i \in 1..Len(r.sessions[targetClientID].shared_with) :
                r.sessions[targetClientID].shared_with[i] = contextID
    THEN [err |-> "already_shared", reg |-> r]
    ELSE [err |-> Save(io),
          reg |-> [r EXCEPT !.sessions[targetClientID].shared_with =
                                Append(@, contextID)]]

\* A call on the sessions by op that results in r; the clock moves when the
\* call has stamped a session.
SessionCall(op, clientID, contextID, t, r) ==
    /\ reg' = r.reg
    /\ file' \in WriteFile(file, r)
    /\ clock' = IF r.reg # reg THEN t ELSE clock
    /\ last' = [NoReturn EXCEPT !.op = op, !.id = clientID,
                                !.ids = <<clientID, contextID>>, !.err = r.err]
    /\ UNCHANGED <<db, exported, calls, stable, mu>>

RegisterSession(clientID) ==
    \E ts \in Times(2), io \in BOOLEAN :
        SessionCall("RegisterSession", clientID, "", ts[2],
                    RegisterSessionResult(reg, clientID, ts[2], io))

UnregisterSession(clientID) ==
    \E io \in BOOLEAN :
        SessionCall("UnregisterSession", clientID, "", clock,
                    UnregisterSessionResult(reg, clientID, io))

SwitchContext(clientID, contextID) ==
    \E ts \in Times(1), io \in BOOLEAN :
        SessionCall("SwitchContext", clientID, contextID, ts[1],
                    SwitchContextResult(reg, clientID, contextID, ts[1], io))

ShareContext(targetClientID, contextID) ==
    \E io \in BOOLEAN :
        SessionCall("ShareContext", targetClientID, contextID, clock,
                    ShareContextResult(reg, targetClientID, contextID, io))

GetClientContext(clientID) ==
    \E ts \in Times(2), io \in BOOLEAN :
    \E r \in {GetClientContextResult(reg, clientID, ts[2], io)} :
        /\ reg' = r.reg
        /\ file' \in WriteFile(file, [err |-> r.saved, reg |-> r.reg])
        /\ clock' = IF r.reg # reg THEN ts[2] ELSE clock
        /\ last' = [NoReturn EXCEPT !.op = "GetClientContext", !.id = clientID,
                                    !.ids = <<clientID, r.context>>, !.err = r.err]
        /\ UNCHANGED <<db, exported, calls, stable, mu>>

\* initializeDefaults that creates nothing.
InitializeNothing(r, t) == r

\* initializeDefaults at the instant t: the default context, when missing.
InitializeDefaults(r, t) ==
    IF DefaultContextID \in DOMAIN r.contexts THEN r
    ELSE [r EXCEPT !.contexts =
            Buffer(@, DefaultContextID, NewContext(DefaultContextID, "General", t))]

\* Load into the data of a new ContextManager: os.ReadFile fails (io) or
\* finds no file or returns the text, which json.Unmarshal checks as a whole
\* before it decodes any of it.
Load(f, t, io) ==
    IF f = NoFile THEN [err |-> "nil", reg |-> InitializeDefaults(EmptyRegistry, t)]
    ELSE IF io THEN [err |-> "ErrIO", reg |-> EmptyRegistry]
    ELSE IF f = PartialFile THEN [err |-> "unmarshal", reg |-> EmptyRegistry]
    ELSE [err |-> "nil",
          reg |-> InitializeDefaults(UnmarshalData(f, EmptyRegistry), t)]

\* The data of the ContextManager that NewContextManager returns: it starts
\* fresh when Load fails.
NewContextManagerData(f, t, io) ==
    LET loaded == Load(f, t, io) IN
    IF loaded.err # "nil" THEN InitializeDefaults(loaded.reg, t) ELSE loaded.reg

\* The machine stops while the Save of a change, which has changed the data
\* in memory, writes the file: before os.WriteFile has opened it, after it
\* has truncated it, or after it has written all of it.
CrashInSave(op, id, r) ==
    /\ last.op # "crash"
    /\ r.err = "nil"
    /\ reg' = r.reg
    /\ file' \in {file, PartialFile, MarshalIndent(r.reg)}
    /\ last' = [NoReturn EXCEPT !.op = "crash", !.id = id]
    /\ UNCHANGED <<db, clock, exported, calls, stable, mu>>

\* The process starts again after the stop: NewContextManager on the path
\* of the file.
NewContextManager ==
    /\ last.op = "crash"
    /\ \E ts \in Times(1), io \in BOOLEAN :
         /\ reg' = NewContextManagerData(file, ts[1], io)
         /\ clock' = ts[1]
    /\ last' = [NoReturn EXCEPT !.op = "NewContextManager"]
    /\ UNCHANGED <<db, exported, calls, stable, file, mu>>

\* A lookup in the Registry by the call op with the key id.
RegistryLookup(op, id, r) ==
    /\ last' = [NoReturn EXCEPT !.op = op, !.id = id, !.err = r.err]
    /\ UNCHANGED <<db, clock, exported, calls, stable, reg, file, mu>>

GetContext(id) == RegistryLookup("GetContext", id, GetContextResult(reg, id))

GetTag(name) == RegistryLookup("GetTag", name, GetTagResult(reg, name))

GetSession(clientID) ==
    RegistryLookup("GetSession", clientID, GetSessionResult(reg, clientID))

\* ----------------------------------------------------------- ValidateFilter
\* ValidateFilter without the check of the mode.
ValidateFilterAnyMode(r, filter) ==
    IF filter.context_id # "" /\ GetContextResult(r, filter.context_id).err # "nil"
    THEN "invalid_context_id"
    ELSE IF filter.start_date # NoDate /\ filter.end_date # NoDate
            /\ filter.start_date > filter.end_date
    THEN "start_after_end"
    ELSE "nil"

\* The error of ValidateFilter: the checks in the order of the code.
ValidateFilter(r, filter) ==
    IF filter.context_id # "" /\ GetContextResult(r, filter.context_id).err # "nil"
    THEN "invalid_context_id"
    ELSE IF filter.start_date # NoDate /\ filter.end_date # NoDate
            /\ filter.start_date > filter.end_date
    THEN "start_after_end"
    ELSE IF filter.tag_filter_mode # "" /\ filter.tag_filter_mode # "all"
            /\ filter.tag_filter_mode # "any"
    THEN "bad_tag_filter_mode"
    ELSE "nil"

\* The filters given to ValidateFilter.
ValidatedFilters ==
    {[NoFilter EXCEPT !.context_id = c, !.start_date = s, !.end_date = e,
                      !.tag_filter_mode = m] :
        c \in {"", "ctxA"}, s \in NoDate..MaxClock, e \in NoDate..MaxClock,
        m \in {"", "all", "any", "ALL"}}

Validate(filter) ==
    /\ last' = [NoReturn EXCEPT !.op = "ValidateFilter", !.filter = filter,
                                !.err = ValidateFilter(reg, filter)]
    /\ UNCHANGED <<db, clock, exported, calls, stable, reg, file, mu>>

\* ------------------------------------------------------- reads by a caller
\* The store after a db.View: a read-only transaction, which writes nothing.
AfterViewConsumed(store, keys) == [k \in DOMAIN store \ keys |-> store[k]]

AfterView(store, keys) == store

\* GetHistory(id) returns; got holds the record the caller now has.
ReadHistory(id) ==
    /\ \E r \in {GetHistory(db, id)} :
         last' = [NoReturn EXCEPT !.op = "GetHistory", !.id = id, !.err = r.err,
                     !.got = IF r.err = "nil"
                             THEN [k \in {id} |-> r.rec] ELSE NoWrites]
    /\ db' = AfterView(db, {id})
    /\ UNCHANGED <<clock, exported>>

\* GetAllHistories() returns; got is the map the caller now has.
ReadAllHistories ==
    /\ last' = [NoReturn EXCEPT !.op = "GetAllHistories", !.got = GetAllHistories(db)]
    /\ db' = AfterView(db, DOMAIN db)
    /\ UNCHANGED <<clock, exported>>

\* What a caller may do to a record it was given, and to the map.
Mutations == {"versions", "tags", "metadata", "current_version", "delete"}

Mutate(rec, m) ==
    CASE m = "versions" -> [rec EXCEPT !.versions = <<>>]
      [] m = "tags" -> [rec EXCEPT !.tags = Append(@, "q")]
      [] m = "metadata" -> [rec EXCEPT !.metadata = [k \in {"k"} |-> "v"]]
      [] m = "current_version" -> [rec EXCEPT !.current_version = @ + 1]
      [] OTHER -> rec

\* SharedWith that takes every record returned for the stored one.
SharedWithAll(got) == DOMAIN got

\* The keys whose stored record shares memory with the records a read has
\* returned: none, each returned record is a new struct that json.Unmarshal
\* has filled from the stored bytes, in a map made by the call.
SharedWith(got) == {}

\* The caller changes the record of id it was given (or deletes it from the
\* map it was given); what shares memory with it changes with it.
MutateReturned(id, m) ==
    /\ last.op \in {"GetHistory", "GetAllHistories"}
    /\ id \in DOMAIN last.got
    /\ \E got \in {IF m = "delete"
                   THEN [k \in DOMAIN last.got \ {id} |-> last.got[k]]
                   ELSE [last.got EXCEPT ![id] = Mutate(@, m)]} :
       /\ last' = [last EXCEPT !.op = "CallerMutation", !.id = id, !.got = got]
       /\ db' = [k \in DOMAIN db \ ((SharedWith(last.got) \cap {id}) \ DOMAIN got) |->
                    IF k = id /\ k \in SharedWith(last.got)
                    THEN Marshal(got[k]) ELSE db[k]]
    /\ UNCHANGED <<clock, exported>>

\* ------------------------------------------------------ concurrent callers
\* Callers that use the store at the same time.  The code takes no lock: a
\* db.Update is an optimistic transaction that reads from the snapshot of
\* its start, records the keys it reads and buffers its writes; its commit
\* fails with ErrConflict when a key it has read was committed by another
\* transaction since, and db.Update does not retry.  A db.View reads the
\* snapshot of its start, so that a scan is one step.  The body of a
\* transaction runs within the instant of its commit.

\* The part of the store a transaction that reads keys sees.
View(store, keys) == [k \in keys \cap DOMAIN store |-> store[k]]

\* CommitErr without the detection of conflicts.
CommitErrUndetected(bodyErr, w, conflict, io) == UpdateErr(bodyErr, w, io)

\* What db.Update returns to a caller among others: the body's error, or
\* the commit's, which checks the keys read before it writes to disk.
CommitErr(bodyErr, w, conflict, io) ==
    IF bodyErr = "nil" /\ DOMAIN w # {} /\ conflict THEN "ErrConflict"
    ELSE UpdateErr(bodyErr, w, io)

\* The calls in progress after a transaction of caller p has committed
\* keys: every other transaction that has read one of them is in conflict.
Committed(cs, p, keys) ==
    [q \in Callers |->
        IF q # p /\ cs[q].read \cap keys # {}
        THEN [cs[q] EXCEPT !.conflict = TRUE]
        ELSE cs[q]]

\* The calls in progress after the call of p has returned.
Returned(cs, p) == [cs EXCEPT ![p] = NoCall]

\* AddVersion starts: its transaction reads the record of id.
BeginAddVersion(p, id, w) ==
    /\ calls[p].op = "idle"
    /\ id \in DOMAIN db =>
         Len(db[id].versions)
           + Cardinality({q \in Callers : calls[q].op = "AddVersion"
                                          /\ calls[q].id = id}) < MaxVersions
    /\ calls' = [calls EXCEPT ![p] =
                    [NoCall EXCEPT !.op = "AddVersion", !.id = id, !.w = w,
                                   !.read = IF KeyErr(id) = "nil" THEN {id} ELSE {},
                                   !.view = View(db, {id})]]
    /\ last' = NoReturn
    /\ UNCHANGED <<db, clock, exported, stable, reg, file, mu>>

\* What the AddVersion c in progress does to the store and returns.
AddVersionCommit(store, c, ts, io) ==
    LET bodyErr == KeyErr(c.id)
        writes == IF bodyErr = "nil"
                  THEN Buffer(NoWrites, c.id, AddVersionBody(c.view, c.id, c.w, ts))
                  ELSE NoWrites
        err == CommitErr(bodyErr, writes, c.conflict, io)
    IN [err |-> err, store |-> Update(store, writes, err),
        keys |-> IF err = "nil" THEN DOMAIN writes ELSE {}]

\* AddVersion commits and returns.
ReturnAddVersion(p) ==
    /\ calls[p].op = "AddVersion"
    /\ \E ts \in Times(3), io \in BOOLEAN :
       \E r \in {AddVersionCommit(db, calls[p], ts, io)} :
       /\ db' = r.store
       /\ clock' = ts[3]
       /\ calls' = Returned(Committed(calls, p, r.keys), p)
       /\ last' = [NoReturn EXCEPT !.op = "AddVersion", !.id = calls[p].id,
                                   !.w = calls[p].w, !.err = r.err]
    /\ UNCHANGED <<exported, stable, reg, file, mu>>

\* The keys the body of a tag batch reads: those before the first empty ID.
ReadBy(ids) ==
    {ids[i] : i \in {j \in 1..Len(ids) : \A k \in 1..j : ids[k] # ""}}

\* BatchAddTags or BatchRemoveTags starts.
BeginBatchTags(p, op, ids, tags) ==
    /\ calls[p].op = "idle"
    /\ calls' = [calls EXCEPT ![p] =
                    [NoCall EXCEPT !.op = op, !.ids = ids, !.tags = tags,
                                   !.read = ReadBy(ids),
                                   !.view = View(db, ReadBy(ids))]]
    /\ last' = NoReturn
    /\ UNCHANGED <<db, clock, exported, stable, reg, file, mu>>

\* What the tag batch c in progress does to the store and returns.
BatchTagsCommit(store, c, ts, io) ==
    LET body == BatchTagsBody(c.view, c.ids, c.tags, c.op = "BatchRemoveTags", ts)
        err == CommitErr(body.err, body.writes, c.conflict, io)
    IN [store |-> Update(store, body.writes, err),
        err |-> err,
        stamped |-> body.stamped,
        keys |-> IF err = "nil" THEN DOMAIN body.writes ELSE {},
        res |-> IF err # "nil"
                THEN [body.res EXCEPT !.failed = Len(c.ids), !.successful = 0]
                ELSE body.res]

\* The tag batch commits and returns.
ReturnBatchTags(p) ==
    /\ calls[p].op \in {"BatchAddTags", "BatchRemoveTags"}
    /\ \E ts \in Times(Len(calls[p].ids)), io \in BOOLEAN :
       \E r \in {BatchTagsCommit(db, calls[p], ts, io)} :
       /\ db' = r.store
       /\ clock' = IF r.stamped THEN ts[Len(calls[p].ids)] ELSE clock
       /\ calls' = Returned(Committed(calls, p, r.keys), p)
       /\ last' = [NoReturn EXCEPT !.op = calls[p].op, !.ids = calls[p].ids,
                                   !.tags = calls[p].tags,
                                   !.err = r.err, !.res = r.res]
    /\ UNCHANGED <<exported, stable, reg, file, mu>>

\* BatchCreateMemories starts its loop.
BeginBatchCreate(p, items) ==
    /\ calls[p].op = "idle"
    /\ \A q \in Callers : calls[q].op = "BatchCreateMemories" => calls[q].done > 0
    /\ \A id \in Keys :
         (IF id \in DOMAIN db THEN Len(db[id].versions) ELSE 0)
           + Adds(items, id) < MaxVersions
    /\ calls' = [calls EXCEPT ![p] =
                    [NoCall EXCEPT !.op = "BatchCreateMemories", !.items = items,
                                   !.res = [NoTally EXCEPT !.total = Len(items)]]]
    /\ last' = NoReturn
    /\ UNCHANGED <<db, clock, exported, stable, reg, file, mu>>

\* One turn of the loop of BatchCreateMemories: the AddVersion of the next
\* item, a transaction that starts and commits with no other in between.
StepBatchCreate(p) ==
    /\ calls[p].op = "BatchCreateMemories"
    /\ calls[p].done < Len(calls[p].items)
    /\ LET item == calls[p].items[calls[p].done + 1] IN
       \E ts \in Times(3), io \in BOOLEAN :
       \E r \in {AddVersionResult(db, item.id,
                     [item.w EXCEPT !.note = "Batch import"], ts, io)} :
       /\ db' = r.store
       /\ clock' = ts[3]
       /\ calls' = [Committed(calls, p, IF r.err = "nil" THEN {item.id} ELSE {})
                      EXCEPT ![p].done = @ + 1,
                             ![p].res = IF r.err # "nil"
                                        THEN Fail(@, "Failed to create", item.id, r.err)
                                        ELSE Succeed(@)]
    /\ last' = NoReturn
    /\ UNCHANGED <<exported, stable, reg, file, mu>>

\* BatchCreateMemories returns its tally after the loop.
ReturnBatchCreate(p) ==
    /\ calls[p].op = "BatchCreateMemories"
    /\ calls[p].done = Len(calls[p].items)
    /\ last' = [NoReturn EXCEPT !.op = "BatchCreateMemories",
                                !.ids = IDsOf(calls[p].items), !.res = calls[p].res]
    /\ calls' = Returned(calls, p)
    /\ UNCHANGED <<db, clock, exported, stable, reg, file, mu>>

\* FilterMemories without a filter scans the store while other calls are in
\* progress; each loop of transactions in progress notes how many of its
\* items had succeeded when the scan read the store.
Scan ==
    /\ \E p \in Callers : calls[p].op = "idle"
    /\ FilterMemories(NoFilter)
    /\ calls' = [q \in Callers |->
                    IF calls[q].op = "BatchCreateMemories"
                    THEN [calls[q] EXCEPT !.scanned = calls[q].res.successful]
                    ELSE calls[q]]
    /\ UNCHANGED <<stable, reg, file, mu>>

\* ------------------------------------------- concurrent callers of the lock
\* The calls of the ContextManager by callers that run at the same time.
\* Every method takes cm.mu on entry, for reading or for writing, and
\* releases it by a deferred call when it returns; what it does while it
\* holds the lock is one step.  pc is the position of the caller: at a
\* Lock or an RLock that it waits for, or in the method with the lock held.
\* handler is the function that goes on after the method has returned.

\* RUnlock that leaves the reader in.
RUnlockNothing(m, p) == m

CanLock(m) == m.writer = NoCaller /\ m.readers = {}
CanRLock(m) == m.writer = NoCaller
Lock(m, p) == [m EXCEPT !.writer = p]
Unlock(m, p) == [m EXCEPT !.writer = NoCaller]
RLock(m, p) == [m EXCEPT !.readers = @ \cup {p}]
RUnlock(m, p) == [m EXCEPT !.readers = @ \ {p}]

WriteMethods == {"CreateContext", "RegisterSession", "UnregisterSession",
                 "SwitchContext"}
ReadMethods == {"GetContext", "GetSession", "GetClientContext"}

\* The caller p enters the method op.
Enter(c, op, handler) ==
    [c EXCEPT !.op = op, !.handler = handler,
              !.pc = IF op \in WriteMethods THEN "Lock" ELSE "RLock"]

\* A caller starts a call: a method of the ContextManager, or the
\* switchContextHandler, whose first call is GetSession.
BeginCall(p, op, clientID, contextID) ==
    /\ calls[p].op = "idle"
    /\ calls' = [calls EXCEPT ![p] =
                    Enter([NoCall EXCEPT !.id = clientID,
                                         !.ids = <<clientID, contextID>>],
                          IF op = "switchContextHandler" THEN "GetSession" ELSE op,
                          IF op = "switchContextHandler" THEN op ELSE "")]
    /\ last' = NoReturn
    /\ UNCHANGED <<db, clock, exported, stable, reg, file, mu>>

\* cm.mu.Lock() or cm.mu.RLock() returns.
Acquire(p) ==
    /\ \/ /\ calls[p].pc = "Lock"
          /\ CanLock(mu)
          /\ mu' = Lock(mu, p)
          /\ calls' = [calls EXCEPT ![p].pc = "locked"]
       \/ /\ calls[p].pc \in {"RLock", "RLockAgain"}
          /\ CanRLock(mu)
          /\ mu' = RLock(mu, p)
          /\ calls' = [calls EXCEPT ![p].pc =
                          IF @ = "RLock" THEN "rlocked" ELSE "rlocked_again"]
    /\ last' = NoReturn
    /\ UNCHANGED <<db, clock, exported, stable, reg, file>>

\* What the method of the call c does to the data r under the write lock.
WriteResult(r, c, t, io) ==
    CASE c.op = "CreateContext" -> CreateContextResult(r, c.ids[2], "n1", t, io)
      [] c.op = "RegisterSession" -> RegisterSessionResult(r, c.id, t, io)
      [] c.op = "UnregisterSession" -> UnregisterSessionResult(r, c.id, io)
      [] c.op = "SwitchContext" -> SwitchContextResult(r, c.id, c.ids[2], t, io)

\* The caller after its method has returned err under the write lock: the
\* switchContextHandler goes on to SwitchContext after a RegisterSession
\* without an error, GetClientContext takes the read lock again whatever
\* RegisterSession has returned, and every other call is over.
AfterWrite(c, err) ==
    IF c.handler = "switchContextHandler" /\ c.op = "RegisterSession" /\ err = "nil"
    THEN Enter(c, "SwitchContext", c.handler)
    ELSE IF c.handler = "GetClientContext"
    THEN [c EXCEPT !.op = "GetClientContext", !.handler = "", !.pc = "RLockAgain"]
    ELSE NoCall

\* A method that changes the data runs under the write lock and returns.
WriteReturns(p) ==
    /\ calls[p].pc = "locked"
    /\ \E ts \in Times(1), io \in BOOLEAN :
       \E r \in {WriteResult(reg, calls[p], ts[1], io)} :
       /\ reg' = r.reg
       /\ file' \in WriteFile(file, r)
       /\ clock' = IF r.reg # reg THEN ts[1] ELSE clock
       /\ calls' = [calls EXCEPT ![p] = AfterWrite(@, r.err)]
       /\ last' = [NoReturn EXCEPT !.op = calls[p].op, !.id = calls[p].id,
                                   !.ids = calls[p].ids, !.err = r.err]
    /\ mu' = Unlock(mu, p)
    /\ UNCHANGED <<db, exported, stable>>

\* The caller after its method has read the data r under the read lock:
\* the switchContextHandler registers the client when GetSession has
\* failed, GetClientContext leaves the read lock to register a client that
\* has no session, and every other call is over.
AfterRead(r, c) ==
    IF c.handler = "switchContextHandler"
    THEN Enter(c, IF GetSessionResult(r, c.id).err # "nil"
                  THEN "RegisterSession" ELSE "SwitchContext", c.handler)
    ELSE IF c.op = "GetClientContext" /\ c.pc = "rlocked"
            /\ c.id \notin DOMAIN r.sessions
    THEN Enter(c, "RegisterSession", "GetClientContext")
    ELSE NoCall

\* The error and the context that the method of the call c returns under
\* the read lock.
ReadResult(r, c) ==
    CASE c.op = "GetContext" ->
            [err |-> GetContextResult(r, c.ids[2]).err, context |-> c.ids[2]]
      [] c.op = "GetSession" ->
            [err |-> GetSessionResult(r, c.id).err, context |-> c.ids[2]]
      [] c.op = "GetClientContext" ->
            [err |-> "nil",
             context |-> IF c.pc = "rlocked" /\ c.id \in DOMAIN r.sessions
                         THEN r.sessions[c.id].current_context
                         ELSE DefaultContextID]

\* A method that reads the data runs under the read lock and leaves it.
ReadReturns(p) ==
    /\ calls[p].pc \in {"rlocked", "rlocked_again"}
    /\ calls' = [calls EXCEPT ![p] = AfterRead(reg, @)]
    /\ mu' = RUnlock(mu, p)
    /\ \E r \in {ReadResult(reg, calls[p])} :
         last' = IF AfterRead(reg, calls[p]) = NoCall \/ calls[p].op = "GetSession"
                 THEN [NoReturn EXCEPT !.op = calls[p].op, !.id = calls[p].id,
                                       !.ids = <<calls[p].id, r.context>>,
                                       !.err = r.err]
                 ELSE NoReturn
    /\ UNCHANGED <<db, clock, exported, stable, reg, file>>

\* -------------------------------------------------------- crash and reopen
\* The store is opened with badger's DefaultOptions, whose SyncWrites is
\* false: a commit returns when its writes are in the files of the store,
\* which the operating system writes to stable storage later on.

\* What the files hold reaches stable storage.
Sync ==
    /\ stable # db
    /\ stable' = db
    /\ last' = NoReturn
    /\ UNCHANGED <<db, clock, exported, calls, reg, file, mu>>

\* The machine stops and NewMemoryVersionManager opens the store on the
\* same path anew: the store holds what had reached stable storage.
CrashAndReopen ==
    /\ db' = stable
    /\ exported' = NoExport
    /\ last' = [NoReturn EXCEPT !.op = "NewMemoryVersionManager"]
    /\ UNCHANGED <<clock, calls, stable, reg, file, mu>>

\* ---------------------------------------------------------- specifications
\* The Version Store with its single operations, export and import.
Next ==
    \/ \E c \in AddVersionCalls : AddVersion(c.id, c.w) /\ UNCHANGED <<calls, stable, reg, file, mu>>
    \/ \E id \in IDs : DeleteMemoryHistory(id) /\ UNCHANGED <<calls, stable, reg, file, mu>>
    \/ \E f \in ExportFilters, v \in BOOLEAN : ExportMemories(f, v) /\ UNCHANGED <<calls, stable, reg, file, mu>>
    \/ ImportMemories /\ UNCHANGED <<calls, stable, reg, file, mu>>

Spec == Init /\ [][Next]_vars

\* The Batch Coordinator: the four batch operations on the store.
NextBatch ==
    \/ \E items \in BatchItems : BatchCreateMemories(items) /\ UNCHANGED <<calls, stable, reg, file, mu>>
    \/ \E ids \in BatchDeleteIDs : BatchDeleteMemories(ids) /\ UNCHANGED <<calls, stable, reg, file, mu>>
    \/ \E ids \in BatchTagIDs, tags \in TagLists :
            BatchAddTags(ids, tags) /\ UNCHANGED <<calls, stable, reg, file, mu>>
    \/ \E ids \in BatchTagIDs, tags \in TagLists :
            BatchRemoveTags(ids, tags) /\ UNCHANGED <<calls, stable, reg, file, mu>>

SpecBatch == Init /\ [][NextBatch]_vars

\* The Version Store with imports of data the caller has put together.
NextImport ==
    \/ \E c \in AddVersionCalls : AddVersion(c.id, c.w) /\ UNCHANGED <<calls, stable, reg, file, mu>>
    \/ \E id \in IDs : DeleteMemoryHistory(id) /\ UNCHANGED <<calls, stable, reg, file, mu>>
    \/ \E memories \in ImportLists : ImportData(memories) /\ UNCHANGED <<calls, stable, reg, file, mu>>

SpecImport == Init /\ [][NextImport]_vars

\* The Filter Engine over the Version Store.
NextFilter ==
    \/ \E c \in AddVersionCalls : AddVersion(c.id, c.w) /\ UNCHANGED <<calls, stable, reg, file, mu>>
    \/ \E id \in IDs : DeleteMemoryHistory(id) /\ UNCHANGED <<calls, stable, reg, file, mu>>
    \/ \E filter \in Filters : FilterMemories(filter) /\ UNCHANGED <<calls, stable, reg, file, mu>>

SpecFilter == Init /\ [][NextFilter]_vars

\* The statistics of the Filter Engine over the Version Store.
NextStats ==
    \/ \E c \in StatsCalls : AddVersion(c.id, c.w) /\ UNCHANGED <<calls, stable, reg, file, mu>>
    \/ \E id \in IDs : DeleteMemoryHistory(id) /\ UNCHANGED <<calls, stable, reg, file, mu>>
    \/ \E contextID \in StatsContextIDs :
            GetContextStats(contextID) /\ UNCHANGED <<calls, stable, reg, file, mu>>

SpecStats == Init /\ [][NextStats]_vars

\* Callers that write at the same time: AddVersion and the tag batches.
ConcurrentAdds == {[id |-> "m1", w |-> W1], [id |-> "m1", w |-> W2],
                   [id |-> "", w |-> W2]}
ConcurrentTagIDs == {<<"m1", "m2">>, <<"m1", "">>}

NextWriters ==
    \/ \E p \in Callers, c \in ConcurrentAdds : BeginAddVersion(p, c.id, c.w)
    \/ \E p \in Callers : ReturnAddVersion(p)
    \/ \E p \in Callers, ids \in ConcurrentTagIDs, tags \in TagLists :
            BeginBatchTags(p, "BatchAddTags", ids, tags)
    \/ \E p \in Callers, ids \in ConcurrentTagIDs, tags \in TagLists :
            BeginBatchTags(p, "BatchRemoveTags", ids, tags)
    \/ \E p \in Callers : ReturnBatchTags(p)

SpecWriters == Init /\ [][NextWriters]_vars

\* Scans while BatchCreateMemories calls are in progress.
NextScan ==
    \/ \E p \in Callers, items \in BatchItems : BeginBatchCreate(p, items)
    \/ \E p \in Callers : StepBatchCreate(p)
    \/ \E p \in Callers : ReturnBatchCreate(p)
    \/ Scan

SpecScan == Init /\ [][NextScan]_vars

\* The single operations on a machine that may stop at any time.
NextCrash ==
    \/ \E c \in AddVersionCalls : AddVersion(c.id, c.w) /\ UNCHANGED <<calls, stable, reg, file, mu>>
    \/ \E id \in IDs : DeleteMemoryHistory(id) /\ UNCHANGED <<calls, stable, reg, file, mu>>
    \/ Sync
    \/ CrashAndReopen

SpecCrash == Init /\ [][NextCrash]_vars

\* Reads between writes, and what callers do to the records they read.
NextRead ==
    \/ \E c \in AddVersionCalls : AddVersion(c.id, c.w) /\ UNCHANGED <<calls, stable, reg, file, mu>>
    \/ \E id \in IDs : DeleteMemoryHistory(id) /\ UNCHANGED <<calls, stable, reg, file, mu>>
    \/ \E id \in IDs : ReadHistory(id) /\ UNCHANGED <<calls, stable, reg, file, mu>>
    \/ ReadAllHistories /\ UNCHANGED <<calls, stable, reg, file, mu>>
    \/ \E id \in Keys, m \in Mutations : MutateReturned(id, m) /\ UNCHANGED <<calls, stable, reg, file, mu>>

SpecRead == Init /\ [][NextRead]_vars

\* The contexts and the tags of the Registry.
NextRegistry ==
    \/ \E id \in ContextIDs, name \in ContextNames : CreateContext(id, name)
    \/ \E id \in ContextIDs : GetContext(id)
    \/ \E id \in ContextIDs : DeleteContext(id)
    \/ \E name \in TagNames, d \in TagDescriptions : CreateTag(name, d)
    \/ \E name \in TagNames : GetTag(name)
    \/ \E name \in TagNames : DeleteTag(name)

SpecRegistry == Init /\ [][NextRegistry]_vars

\* The Registry with stops of the machine during Save and restarts.
NextRegistryCrash ==
    \/ /\ last.op # "crash"
       /\ \E id \in ContextIDs, name \in ContextNames : CreateContext(id, name)
    \/ /\ last.op # "crash"
       /\ \E id \in ContextIDs : DeleteContext(id)
    \/ /\ last.op # "crash"
       /\ \E id \in ContextIDs : GetContext(id)
    \/ \E id \in ContextIDs, name \in ContextNames :
            CrashInSave("CreateContext", id,
                        CreateContextResult(reg, id, name, clock, FALSE))
    \/ \E id \in ContextIDs :
            CrashInSave("DeleteContext", id, DeleteContextResult(reg, id, FALSE))
    \/ NewContextManager

SpecRegistryCrash == Init /\ [][NextRegistryCrash]_vars

\* The sessions of the clients over the contexts of the Registry.
NextSessions ==
    \/ \E id \in SessionContextIDs, name \in ContextNames : CreateContext(id, name)
    \/ \E id \in SessionContextIDs : DeleteContext(id)
    \/ \E c \in ClientIDs : RegisterSession(c)
    \/ \E c \in ClientIDs : UnregisterSession(c)
    \/ \E c \in ClientIDs : GetSession(c)
    \/ \E c \in ClientIDs, id \in SessionContextIDs : SwitchContext(c, id)
    \/ \E c \in ClientIDs : GetClientContext(c)
    \/ \E c \in ClientIDs, id \in SessionContextIDs : ShareContext(c, id)

SpecSessions == Init /\ [][NextSessions]_vars

\* Callers of the ContextManager that run at the same time.
NextLock ==
    \/ \E p \in Callers : BeginCall(p, "CreateContext", "", "ctxA")
    \/ \E p \in Callers : BeginCall(p, "GetContext", "", "ctxA")
    \/ \E p \in Callers, c \in ClientIDs : BeginCall(p, "GetClientContext", c, "")
    \/ \E p \in Callers, c \in ClientIDs :
            BeginCall(p, "switchContextHandler", c, "ctxA")
    \/ \E p \in Callers, c \in ClientIDs : BeginCall(p, "UnregisterSession", c, "")
    \/ \E p \in Callers : Acquire(p)
    \/ \E p \in Callers : WriteReturns(p)
    \/ \E p \in Callers : ReadReturns(p)

SpecLock == Init /\ [][NextLock]_vars

\* The same callers when every caller that waits for the lock gets it in
\* the end and every caller that holds it goes on: sync.RWMutex lets no
\* waiter starve, and the scheduler runs every goroutine that can run.
SpecLockFair ==
    /\ Init /\ [][NextLock]_vars
    /\ \A p \in Callers : SF_vars(Acquire(p))
    /\ \A p \in Callers : WF_vars(WriteReturns(p))
    /\ \A p \in Callers : WF_vars(ReadReturns(p))

\* The validation of filters against the contexts of the Registry.
NextValidate ==
    \/ \E id \in ContextIDs, name \in ContextNames : CreateContext(id, name)
    \/ \E id \in ContextIDs : DeleteContext(id)
    \/ \E filter \in ValidatedFilters : Validate(filter)

SpecValidate == Init /\ [][NextValidate]_vars

\* Versions and tag batches on the same records; the tag lists repeat a
\* tag and differ from the tags of the versions in case only.
CasedTagLists == {<<"X", "z", "z">>}
TaggedIDs == {<<"m1", "m2">>, <<"m2", "">>}

NextTags ==
    \/ \E c \in AddVersionCalls : AddVersion(c.id, c.w) /\ UNCHANGED <<calls, stable, reg, file, mu>>
    \/ \E id \in IDs : DeleteMemoryHistory(id) /\ UNCHANGED <<calls, stable, reg, file, mu>>
    \/ \E ids \in TaggedIDs, tags \in CasedTagLists :
            BatchAddTags(ids, tags) /\ UNCHANGED <<calls, stable, reg, file, mu>>
    \/ \E ids \in TaggedIDs, tags \in CasedTagLists :
            BatchRemoveTags(ids, tags) /\ UNCHANGED <<calls, stable, reg, file, mu>>

SpecTags == Init /\ [][NextTags]_vars

\* ------------------------------------------------------------------ claims
Range(seq) == {seq[i] : i \in 1..Len(seq)}

BatchOps == {"BatchCreateMemories", "BatchDeleteMemories",
             "BatchAddTags", "BatchRemoveTags"}
TagBatchOps == {"BatchAddTags", "BatchRemoveTags"}

\* C1: every stored record has current_version = len(versions).
C1_CurrentVersionIsLength ==
    \A id \in DOMAIN db : db[id].current_version = Len(db[id].versions)

\* C2: the version at position i of a record has version_number i.
C2_VersionNumbersAreOneToN ==
    \A id \in DOMAIN db : \A i \in 1..Len(db[id].versions) :
        db[id].versions[i].version_number = i

\* C3: a successful AddVersion(id, content, author, note, ctx, tags) leaves
\* a record whose last version has that content, author and note, whose
\* current_version is one more than before (1 for an unseen id), whose
\* context is ctx and whose tags are exactly the supplied tags.
C3_AddVersionPost ==
    [][(last'.op = "AddVersion" /\ last'.err = "nil") =>
        LET id == last'.id
            w == last'.w
            got == GetHistory(db', id)
            h == got.rec
            before == IF id \in DOMAIN db THEN db[id].current_version ELSE 0
        IN /\ got.err = "nil"
           /\ Len(h.versions) >= 1
           /\ h.versions[Len(h.versions)].content = w.content
           /\ h.versions[Len(h.versions)].created_by = w.by
           /\ h.versions[Len(h.versions)].change_note = w.note
           /\ h.current_version = before + 1
           /\ h.context = w.ctx
           /\ h.tags = w.tags]_vars

\* C4: DeleteMemoryHistory(id) of an id without a record returns the
\* not-found error and leaves the store unchanged; a successful one of an id
\* with a record leaves GetHistory(id) and every GetVersion(id, n) failing
\* with the not-found error.
C4_DeleteMissingIsNotFound ==
    [][last'.op = "DeleteMemoryHistory" =>
        IF last'.id \notin DOMAIN db
        THEN last'.err = "not_found" /\ db' = db
        ELSE last'.err = "nil" =>
                /\ GetHistory(db', last'.id).err = "not_found"
                /\ \A n \in 0..(MaxVersions + 1) :
                      GetVersion(db', last'.id, n).err = "not_found"]_vars

\* The tally the claim C5 describes for a batch delete of ids on store.
ExpectedDelete(store, ids) ==
    LET F[i \in 0..Len(ids)] ==
            IF i = 0 THEN [present |-> DOMAIN store, successful |-> 0, missing |-> <<>>]
            ELSE LET acc == F[i - 1] IN
                 IF ids[i] \in acc.present
                 THEN [acc EXCEPT !.present = @ \ {ids[i]}, !.successful = @ + 1]
                 ELSE [acc EXCEPT !.missing = Append(@, ids[i])]
    IN F[Len(ids)]

NoDiskFailure(res) == \A j \in 1..Len(res.errors) : res.errors[j].err # "ErrIO"

\* C5: BatchDeleteMemories counts an ID that has a record at its turn as
\* successful and deletes it, counts an ID that has none as failed with one
\* error naming it, and goes on after a failed item.
C5_BatchDeletePartialFailure ==
    [][(last'.op = "BatchDeleteMemories" /\ NoDiskFailure(last'.res)) =>
        LET want == ExpectedDelete(db, last'.ids)
            res == last'.res
        IN /\ res.successful = want.successful
           /\ res.failed = Len(want.missing)
           /\ Len(res.errors) = Len(want.missing)
           /\ \A j \in 1..Len(res.errors) : res.errors[j].id = want.missing[j]
           /\ DOMAIN db' = want.present]_vars

\* C6: when the commit of BatchAddTags or BatchRemoveTags fails, the result
\* has failed = total and successful = 0, its errors hold an entry for the
\* commit failure, and the call returns a non-nil error.
C6_CommitFailureIsReported ==
    (last.op \in TagBatchOps /\ last.err \in {"ErrIO", "ErrConflict"}) =>
        /\ last.res.failed = last.res.total
        /\ last.res.successful = 0
        /\ \E j \in 1..Len(last.res.errors) : last.res.errors[j].err = last.err

\* The IDs of a batch that are not reported as failed in its errors.
Successful(ret) == Range(ret.ids) \ {ret.res.errors[j].id : j \in 1..Len(ret.res.errors)}

\* The change of a successful item of the batch is in the store.
Persisted(store, ret, id) ==
    CASE ret.op = "BatchAddTags" ->
            id \in DOMAIN store /\ Range(ret.tags) \subseteq Range(store[id].tags)
      [] ret.op = "BatchRemoveTags" ->
            id \in DOMAIN store /\ Range(ret.tags) \cap Range(store[id].tags) = {}
      [] ret.op = "BatchCreateMemories" -> id \in DOMAIN store
      [] ret.op = "BatchDeleteMemories" -> id \notin DOMAIN store
      [] OTHER -> TRUE

\* C7: a batch that returns an error leaves every record as it was, and a
\* batch that returns no error has persisted the change of every item it
\* counts as successful.
C7_BatchErrorMeansNothingPersisted ==
    [][last'.op \in BatchOps =>
        IF last'.err # "nil"
        THEN db' = db
        ELSE \A id \in Successful(last') : Persisted(db', last', id)]_vars

\* C8: every batch result has total = the number of input items and
\* successful + failed = total.
C8_TallyAddsUp ==
    last.op \in BatchOps =>
        /\ last.res.total = Len(last.ids)
        /\ last.res.successful + last.res.failed = last.res.total

\* A tag batch whose db.Update failed after one item had failed on its own.
C8_Witness ==
    /\ last.op \in TagBatchOps
    /\ last.err # "nil"
    /\ Len(last.res.errors) = 1
    /\ last.res.failed = last.res.total
    /\ last.res.total >= 2

\* The stored records memoryIDs selects, in key order.
SelectedRecords(store, memoryIDs) ==
    LET F[i \in 0..Len(KeyOrder)] ==
            IF i = 0 THEN <<>>
            ELSE IF KeyOrder[i] \in DOMAIN store /\
                    (memoryIDs = <<>> \/ KeyOrder[i] \in Range(memoryIDs))
                 THEN Append(F[i - 1], store[KeyOrder[i]])
                 ELSE F[i - 1]
    IN F[Len(KeyOrder)]

\* C9: an export with includeVersions = true holds the stored records of
\* the selected ids field by field, and a successful import of it leaves
\* each of them stored exactly as exported, whatever was done in between.
C9_ExportImportRoundTrip ==
    /\ (last.op = "ExportMemories" /\ exported.include) =>
            exported.memories = SelectedRecords(db, exported.ids)
    /\ (last.op = "ImportMemories" /\ last.err = "nil" /\ exported.include) =>
            \A i \in 1..Len(exported.memories) :
                /\ exported.memories[i].id \in DOMAIN db
                /\ db[exported.memories[i].id] = exported.memories[i]

\* A full export of two records, one with two versions, imported after a
\* mutating call was made on the store.
C9_Witness ==
    /\ last.op = "ImportMemories"
    /\ last.err = "nil"
    /\ exported.include
    /\ exported.held >= 1
    /\ Len(exported.memories) = 2
    /\ \E i \in 1..2 : Len(exported.memories[i].versions) = 2

\* C10: an export with includeVersions = false holds, for each selected
\* record, a copy whose versions are the latest version alone, and the export
\* leaves the store as it was.
C10_TruncatedExportIsACopy ==
    /\ [](last.op = "ExportMemories" /\ ~exported.include =>
            LET full == SelectedRecords(db, exported.ids) IN
            /\ Len(exported.memories) = Len(full)
            /\ \A i \in 1..Len(full) :
                  /\ exported.memories[i].versions =
                        <<full[i].versions[Len(full[i].versions)]>>
                  /\ [exported.memories[i] EXCEPT !.versions = full[i].versions]
                        = full[i])
    /\ [][last'.op = "ExportMemories" => db' = db]_vars

\* A truncated export of a record that keeps two versions in the store.
C10_Witness ==
    /\ last.op = "ExportMemories"
    /\ ~exported.include
    /\ Len(exported.memories) >= 1
    /\ \E id \in DOMAIN db : Len(db[id].versions) = 2 /\ Selected(exported.ids, id)

\* The IDs of the records of an import, and the last record it has for id.
ImportedIDs(memories) == {memories[i].id : i \in 1..Len(memories)}
LastOf(memories, id) ==
    memories[CHOOSE i \in 1..Len(memories) :
                /\ memories[i].id = id
                /\ \A j \in (i + 1)..Len(memories) : memories[j].id # id]

\* C11: a successful ImportMemories leaves every ID of the import data with
\* the imported record as a whole, the later one when the data has the ID
\* twice, and every other record as it was.
C11_ImportOverwritesWholeRecords ==
    [][(last'.op = "ImportMemories" /\ last'.err = "nil") =>
        LET data == exported'.memories IN
        /\ DOMAIN db' = DOMAIN db \cup ImportedIDs(data)
        /\ \A id \in DOMAIN db' :
              db'[id] = IF id \in ImportedIDs(data) THEN LastOf(data, id) ELSE db[id]]_vars

\* An import that had one ID twice, with different records, went into a
\* store that holds a record the import does not name.
C11_Witness ==
    /\ last.op = "ImportMemories"
    /\ last.err = "nil"
    /\ exported.memories = <<HandMade2, HandMade1>>
    /\ "m2" \in DOMAIN db
    /\ db["m1"] = HandMade1

\* The tags of a list with their case dropped.
Folded(tags) == {IF tags[i] \in DOMAIN Lower THEN Lower[tags[i]] ELSE tags[i] :
                    i \in 1..Len(tags)}

\* How often the results have the record of id.
Hits(results, id) == Cardinality({i \in 1..Len(results) : results[i].id = id})

\* C12: FilterMemories with filter tags alone returns a record exactly when,
\* case dropped, every filter tag is a tag of the record in mode "all", and
\* at least one is in mode "any" and in every other mode.
C12_TagFilterModes ==
    (last.op = "FilterMemories" /\ last.filter \in TagFilters) =>
        \A id \in DOMAIN db :
            Hits(last.results, id) > 0 <=>
                IF last.filter.tag_filter_mode = "all"
                THEN Folded(last.filter.tags) \subseteq Folded(db[id].tags)
                ELSE Folded(last.filter.tags) \cap Folded(db[id].tags) # {}

\* The filter tags [X, z] in mode "any" return a record whose tags are
\* {y, x} and, in another record, {x}.
C12_Witness ==
    /\ last.op = "FilterMemories"
    /\ last.filter = [NoFilter EXCEPT !.tags = <<"X", "z">>, !.tag_filter_mode = "any"]
    /\ Len(last.results) = 2
    /\ \E i \in 1..2 : last.results[i].tags = <<"y", "x">>

\* C13: FilterMemories with context_id alone returns one result for each
\* stored record whose context is context_id, letter case included, and none
\* for another; each result has the content of the latest version of its
\* record and similarity 1.0.
C13_ContextFilter ==
    (/\ last.op = "FilterMemories"
     /\ last.filter.context_id # ""
     /\ last.filter = [NoFilter EXCEPT !.context_id = last.filter.context_id]) =>
        /\ \A id \in DOMAIN db :
              Hits(last.results, id) =
                  IF db[id].context = last.filter.context_id THEN 1 ELSE 0
        /\ \A i \in 1..Len(last.results) :
              LET r == last.results[i] IN
              /\ r.id \in DOMAIN db
              /\ r.content = db[r.id].versions[Len(db[r.id].versions)].content
              /\ r.similarity = 1

\* The filter ctxB returns m1 alone, with the content of its second
\* version, after its second write moved it there from ctxA, where m2 is.
C13_Witness ==
    /\ last.op = "FilterMemories"
    /\ last.filter = [NoFilter EXCEPT !.context_id = "ctxB"]
    /\ Len(last.results) = 1
    /\ last.results[1].id = "m1"
    /\ last.results[1].content = "world"
    /\ last.results[1].current_version = 2
    /\ db["m1"].versions[1].content = "hello"
    /\ "m2" \in DOMAIN db

\* C14: two calls of FilterMemories in a row with the same filter, on the
\* store the first one saw, return the same results in the same order.
C14_FilterIsDeterministic ==
    [][(/\ last.op = "FilterMemories"
        /\ last'.op = "FilterMemories"
        /\ last'.filter = last.filter
        /\ db' = db) => last'.results = last.results]_vars

NotFoundErrors == {"not_found", "version_not_found"}

\* C15: GetVersion(id, n) returns a stored version when id has a record and
\* n is in 1..current_version of it, and fails as not found otherwise.
C15_GetVersionRange ==
    \A id \in IDs : \A n \in 0..(MaxVersions + 1) :
        LET got == GetVersion(db, id, n) IN
        IF id \in DOMAIN db /\ n >= 1 /\ n <= db[id].current_version
        THEN got.err = "nil" /\ got.rec \in Range(db[id].versions)
        ELSE got.err \in NotFoundErrors

\* C16: a scan that runs while a mutation is in progress sees the store as
\* it was before the mutation or as it is after it: of the records a
\* BatchCreateMemories creates, a scan never sees some (0 < scanned) and
\* not the others (scanned < successful).
C16_ScansSeeWholeBatches ==
    \A p \in Callers :
        calls[p].op = "BatchCreateMemories" =>
            ~(0 < calls[p].scanned /\ calls[p].scanned < calls[p].res.successful)

VersionsOf(store, id) == IF id \in DOMAIN store THEN store[id].versions ELSE <<>>

\* C17: no update is lost between concurrent writers of one ID: a
\* successful AddVersion appends its version, numbered one more than the
\* count, to the versions the store holds when it commits; a successful tag
\* batch changes the tags the store holds when it commits; and no other step
\* changes the versions, so that the versions are as many as the successful
\* AddVersion calls and are numbered 1..n.
C17_NoLostUpdate ==
    [][\A id \in Keys :
        LET before == VersionsOf(db, id)
            after == VersionsOf(db', id)
            added == last'.op = "AddVersion" /\ last'.err = "nil" /\ last'.id = id
            tagged == last'.op \in TagBatchOps /\ last'.err = "nil"
                      /\ id \in Successful(last')
        IN /\ added => /\ Len(after) = Len(before) + 1
                       /\ SubSeq(after, 1, Len(before)) = before
                       /\ after[Len(after)].content = last'.w.content
           /\ ~added => after = before
           /\ \A i \in 1..Len(after) : after[i].version_number = i
           /\ tagged => /\ id \in DOMAIN db /\ id \in DOMAIN db'
                        /\ db'[id].tags =
                             IF last'.op = "BatchRemoveTags"
                             THEN RemoveTags(db[id].tags, last'.tags)
                             ELSE AddTags(db[id].tags, last'.tags)]_vars

\* Two callers have been in AddVersion of one ID at the same time, and the
\* first to commit has returned success while the other has yet to commit.
C17_Witness ==
    /\ last.op = "AddVersion" /\ last.err = "nil"
    /\ \E q \in Callers :
        /\ calls[q].op \in {"AddVersion"} \cup TagBatchOps
        /\ last.id \in calls[q].read
        /\ calls[q].conflict

\* C18: AddVersion fails only when the storage fails: whatever its
\* arguments, the empty string included, and whatever other callers do at
\* the same time, the error it returns is nil or that of the disk.
C18_AddVersionFailsOnlyOnIO ==
    last.op = "AddVersion" => last.err \in {"nil", "ErrIO"}

\* C19: a mutation that returns an error applies nothing: after a failed
\* AddVersion, DeleteMemoryHistory or ImportMemories the store, and with it
\* what every read returns, is as it was before the call.
C19_FailedMutationAppliesNothing ==
    [][(last'.op \in {"AddVersion", "DeleteMemoryHistory", "ImportMemories"}
        /\ last'.err # "nil") =>
            /\ db' = db
            /\ GetAllHistories(db') = GetAllHistories(db)
            /\ \A id \in IDs : GetHistory(db', id) = GetHistory(db, id)]_vars

\* An import has failed on a later record after it had set its first one,
\* which the store does not hold.
C19_Witness ==
    /\ last.op = "ImportMemories" /\ last.err # "nil"
    /\ Len(exported.memories) >= 2
    /\ exported.memories[1].id # ""
    /\ exported.memories[1].id \notin DOMAIN db

\* C20: a mutation that has returned success survives a crash and restart:
\* the store that is opened anew on the same path holds the state that
\* includes every mutation that returned success before the crash.
C20_AcknowledgedWritesSurviveCrash ==
    [][last'.op = "NewMemoryVersionManager" => db' = db]_vars

C23_ValidateFilterErrors ==
    last.op = "ValidateFilter" =>
        LET f == last.filter
            unknownContext == f.context_id # "" /\ f.context_id \notin DOMAIN reg.contexts
            datesReversed == f.start_date # NoDate /\ f.end_date # NoDate
                             /\ f.end_date < f.start_date
            badMode == f.tag_filter_mode \notin {"", "all", "any"}
        IN (last.err # "nil") <=> (unknownContext \/ datesReversed \/ badMode)

\* A filter whose only flaw is its mode "ALL", with a context the Registry
\* has and dates in order, was refused.
C23_Witness ==
    /\ last.op = "ValidateFilter" /\ last.err # "nil"
    /\ last.filter.tag_filter_mode = "ALL"
    /\ last.filter.context_id \in DOMAIN reg.contexts
    /\ last.filter.start_date # NoDate
    /\ last.filter.start_date = last.filter.end_date

\* The tags of the Registry whose name is a case variant of name.
Variants(r, name) == {n \in DOMAIN r.tags : EqualFold(n, name)}

\* C24: keys of the Registry are unique: CreateContext of an existing id
\* fails with the already-exists error and changes nothing; the get and the
\* delete of a missing context or tag fail with the not-found error; tag
\* names are folded, so that once a tag exists CreateTag of any case variant
\* fails with the already-exists error and GetTag and DeleteTag find it
\* under every case variant; context ids are case-sensitive.
C24_RegistryKeys ==
    [][LET op == last'.op
           id == last'.id
           err == last'.err
       IN /\ op = "CreateContext" =>
                IF id \in DOMAIN reg.contexts
                THEN err = "already_exists" /\ reg' = reg
                ELSE err \in {"nil", "ErrIO"} /\ id \in DOMAIN reg'.contexts
                     /\ \A k \in DOMAIN reg.contexts : reg'.contexts[k] = reg.contexts[k]
          /\ (op \in {"GetContext", "DeleteContext"} /\ id \notin DOMAIN reg.contexts) =>
                err = "not_found" /\ reg' = reg
          /\ (op = "GetContext" /\ id \in DOMAIN reg.contexts) => err = "nil"
          /\ (op = "CreateTag" /\ Variants(reg, id) # {}) =>
                err = "already_exists" /\ reg' = reg
          /\ (op \in {"GetTag", "DeleteTag"} /\ Variants(reg, id) = {}) =>
                err = "not_found" /\ reg' = reg
          /\ (op = "GetTag" /\ Variants(reg, id) # {}) => err = "nil"
          /\ (op = "DeleteTag" /\ Variants(reg, id) # {}) =>
                err \in {"nil", "ErrIO"} /\ Variants(reg', id) = {}]_vars

\* CreateTag("X") was refused because of the tag "x", in a Registry that
\* holds the contexts "ctxA" and "ctxa" side by side.
C24_Witness ==
    /\ last.op = "CreateTag" /\ last.id = "X" /\ last.err = "already_exists"
    /\ "x" \in DOMAIN reg.tags
    /\ {"ctxA", "ctxa"} \subseteq DOMAIN reg.contexts

IsPrefix(s, t) == Len(s) <= Len(t) /\ SubSeq(t, 1, Len(s)) = s

\* C25: histories are append-only: AddVersion, BatchAddTags and
\* BatchRemoveTags leave every record in place with the versions it had as
\* a prefix of its versions and with its created_at, and in every step a
\* version disappears only together with its whole record.
C25_HistoriesAreAppendOnly ==
    [][\A id \in DOMAIN db :
        /\ last'.op \in {"AddVersion"} \cup TagBatchOps => id \in DOMAIN db'
        /\ id \in DOMAIN db' =>
            /\ IsPrefix(db[id].versions, db'[id].versions)
            /\ db'[id].created_at = db[id].created_at]_vars

\* AddVersion has added a second version to a record, at a later instant
\* than the first.
C25_Witness ==
    /\ last.op = "AddVersion" /\ last.err = "nil"
    /\ last.id \in DOMAIN db
    /\ Len(db[last.id].versions) = 2
    /\ db[last.id].versions[1].created_at < db[last.id].versions[2].created_at
    /\ db[last.id].created_at < db[last.id].updated_at

\* C26: the result of every batch operation lists one error per failed
\* item: the number of its errors is its failed count.
C26_OneErrorPerFailedItem ==
    last.op \in BatchOps => Len(last.res.errors) = last.res.failed

\* C27: a tag batch that returns no error sets the tags of each listed
\* record that exists to its former tags with the given tags added
\* (BatchAddTags) or taken away (BatchRemoveTags); it creates no version:
\* the versions, current_version, context and created_at of every record
\* stay, records that are not listed stay as they are, and no record comes
\* or goes.
C27_TagBatchesChangeTagsOnly ==
    [][(last'.op \in TagBatchOps /\ last'.err = "nil") =>
        /\ DOMAIN db' = DOMAIN db
        /\ \A id \in DOMAIN db :
            IF id \in Range(last'.ids)
            THEN /\ Range(db'[id].tags) =
                      IF last'.op = "BatchAddTags"
                      THEN Range(db[id].tags) \cup Range(last'.tags)
                      ELSE Range(db[id].tags) \ Range(last'.tags)
                 /\ db'[id].versions = db[id].versions
                 /\ db'[id].current_version = db[id].current_version
                 /\ db'[id].context = db[id].context
                 /\ db'[id].created_at = db[id].created_at
            ELSE db'[id] = db[id]]_vars

\* C28: the tags of every stored record are a set under case-insensitive
\* identity: no record holds two tags that are equal when case is ignored.
C28_TagsAreACaseInsensitiveSet ==
    \A id \in DOMAIN db :
        \A i, j \in 1..Len(db[id].tags) :
            EqualFold(db[id].tags[i], db[id].tags[j]) => i = j

\* C29: the author predicate looks at the original author: FilterMemories
\* with created_by alone returns one result for each record whose first
\* version is by that author and none for any other record, whoever wrote
\* the later versions.
C29_AuthorIsTheFirstAuthor ==
    (/\ last.op = "FilterMemories"
     /\ last.filter.created_by # ""
     /\ last.filter = [NoFilter EXCEPT !.created_by = last.filter.created_by]) =>
        \A id \in DOMAIN db :
            Hits(last.results, id) =
                IF db[id].versions[1].created_by = last.filter.created_by
                THEN 1 ELSE 0

\* The filter for bob returns m1 alone, whose first version is by bob and
\* whose latest is by alice, and not m2, which is by alice.
C29_Witness ==
    /\ last.op = "FilterMemories"
    /\ last.filter = [NoFilter EXCEPT !.created_by = "bob"]
    /\ Len(last.results) = 1
    /\ last.results[1].id = "m1"
    /\ DOMAIN db = {"m1", "m2"}
    /\ db["m1"].versions[1].created_by = "bob"
    /\ db["m1"].versions[Len(db["m1"].versions)].created_by = "alice"
    /\ db["m2"].versions[1].created_by = "alice"

\* C30: the bounds of the date range are inclusive: FilterMemories with
\* dates alone returns one result for each record whose created_at is not
\* before the start_date, if that is set, and whose updated_at is not after
\* the end_date, if that is set, and none for any other record.
C30_DateBoundsAreInclusive ==
    (/\ last.op = "FilterMemories"
     /\ last.filter = [NoFilter EXCEPT !.start_date = last.filter.start_date,
                                       !.end_date = last.filter.end_date]) =>
        \A id \in DOMAIN db :
            Hits(last.results, id) =
                IF /\ last.filter.start_date # NoDate =>
                        db[id].created_at >= last.filter.start_date
                   /\ last.filter.end_date # NoDate =>
                        db[id].updated_at <= last.filter.end_date
                THEN 1 ELSE 0

\* The filter from instant 1 on returns the record created at instant 1
\* and not the one created at instant 0.
C30_Witness ==
    /\ last.op = "FilterMemories"
    /\ last.filter = [NoFilter EXCEPT !.start_date = 1]
    /\ Len(last.results) = 1
    /\ db[last.results[1].id].created_at = 1
    /\ \E id \in DOMAIN db : db[id].created_at = 0

\* The stored records that pass the criteria of filter.
Matching(filter) == {id \in DOMAIN db : Matches(db[id], filter)}

\* C31: FilterMemories with a positive max_results returns as many results
\* as there are matching records, but max_results at most, and with
\* max_results 0 one result for every matching record; every result is of
\* a matching record and no record has two results.
C31_ResultLimit ==
    last.op = "FilterMemories" =>
        LET n == Cardinality(Matching(last.filter)) IN
        /\ Len(last.results) =
              IF last.filter.max_results > 0 /\ last.filter.max_results < n
              THEN last.filter.max_results ELSE n
        /\ \A i \in 1..Len(last.results) : last.results[i].id \in Matching(last.filter)
        /\ \A id \in DOMAIN db : Hits(last.results, id) <= 1

\* With m1 and m2 both in context ctxA, the filter of ctxA with max_results
\* 1 returns one of the two.
C31_Witness ==
    /\ last.op = "FilterMemories"
    /\ last.filter = [NoFilter EXCEPT !.context_id = "ctxA", !.max_results = 1]
    /\ Matching(last.filter) = {"m1", "m2"}
    /\ Len(last.results) = 1

\* The stored records whose context is contextID.
InContext(contextID) == {id \in DOMAIN db : db[id].context = contextID}

Min(S) == CHOOSE x \in S : \A y \in S : x <= y
Max(S) == CHOOSE x \in S : \A y \in S : x >= y

\* The sum of the lengths of the latest contents of the records of S.
RECURSIVE TotalCharacters(_)
TotalCharacters(S) ==
    IF S = {} THEN 0
    ELSE LET id == CHOOSE x \in S : TRUE IN
         len[db[id].versions[Len(db[id].versions)].content]
            + TotalCharacters(S \ {id})

\* C32: GetContextStats(contextID) is a fold over the stored records whose
\* context is contextID: memory_count is their number, unique_tags has each
\* of their tags once, case ignored, oldest_memory is the least created_at,
\* newest_memory the greatest updated_at and total_characters the sum of
\* the lengths of the latest contents; with no such record the counts are
\* 0, unique_tags is empty and oldest_memory and newest_memory are absent.
C32_ContextStats ==
    last.op = "GetContextStats" =>
        LET S == InContext(last.id)
            st == last.stats IN
        /\ st.memory_count = Cardinality(S)
        /\ Folded(st.unique_tags) = UNION {Folded(db[id].tags) : id \in S}
        /\ Len(st.unique_tags) = Cardinality(Folded(st.unique_tags))
        /\ st.oldest_memory =
              IF S = {} THEN NoDate ELSE Min({db[id].created_at : id \in S})
        /\ st.newest_memory =
              IF S = {} THEN NoDate ELSE Max({db[id].updated_at : id \in S})
        /\ st.total_characters = TotalCharacters(S)

\* C33: the Filter Engine validates before it scans: for a filter that
\* ValidateFilter rejects, the call reports a validation error and reads no
\* history of the store; for a filter it accepts, FilterMemories returns
\* without an error and every result is of a record that matches.
C33_ValidatesBeforeScan ==
    last.op = "FilterMemories" =>
        IF ValidateFilter(reg, last.filter) # "nil"
        THEN last.err # "nil" /\ ~last.scanned /\ last.results = <<>>
        ELSE /\ last.err = "nil"
             /\ \A i \in 1..Len(last.results) :
                   last.results[i].id \in Matching(last.filter)

\* C34: a change of the Registry whose Save fails leaves the Registry in
\* memory as it was: the call returns the storage error and the contexts
\* and tags that later reads return are those from before the call.
C34_FailedSaveChangesNothing ==
    [][last'.err = "ErrIO" => reg' = reg]_vars

\* C35: Save replaces the file of the Registry atomically: when the machine
\* stops during a Save, the file holds afterwards either all of what it held
\* before or all of the new data, and the restart finds a whole file and
\* loads the data it holds.
C35_SaveIsAtomic ==
    [][/\ last'.op = "crash" => file' \in {file, MarshalIndent(reg')}
       /\ last'.op = "NewContextManager" =>
            /\ file # PartialFile
            /\ file # NoFile => MarshalIndent(reg') = file]_vars

\* C36: in every state of the Version Store, also after an import of data
\* exported without the older versions and a further AddVersion, a
\* GetVersion(id, n) that succeeds returns the version whose version_number
\* is n.
C36_GetVersionReturnsItsNumber ==
    \A id \in IDs : \A n \in 0..(MaxVersions + 1) :
        LET got == GetVersion(db, id, n) IN
        got.err = "nil" => got.rec.version_number = n

\* C37: the default context "general" is in the Registry in every state:
\* after NewContextManager, whether it has loaded a file or not, and after
\* every change; DeleteContext("general") always fails and removes nothing.
C37_DefaultContextAlwaysExists ==
    /\ [](DefaultContextID \in DOMAIN reg.contexts)
    /\ [][(last'.op = "DeleteContext" /\ last'.id = DefaultContextID) =>
            (last'.err = "cannot_delete_default" /\ reg' = reg)]_vars

\* NewContextManager has found a file cut short, after a stop of the machine
\* during the Save of a new context, and has started with the default
\* context alone.
C37_Witness ==
    /\ last.op = "NewContextManager"
    /\ file = PartialFile
    /\ DOMAIN reg.contexts = {DefaultContextID}

\* C38: the current_context of every client session names a context that
\* is in the Registry, whatever CreateContext, DeleteContext,
\* RegisterSession, SwitchContext and UnregisterSession calls were made.
C38_SessionsPointAtContexts ==
    \A c \in DOMAIN reg.sessions :
        reg.sessions[c].current_context \in DOMAIN reg.contexts

\* C39: a successful SwitchContext(client, ctx) is not undone behind the
\* back of the client: in every step in which the session of a client
\* disappears or gets another current_context, a SwitchContext or an
\* UnregisterSession for that client returns, however the calls of
\* GetClientContext, RegisterSession and SwitchContext interleave.
C39_SwitchIsNotUndone ==
    [][\A c \in DOMAIN reg.sessions :
          (\/ c \notin DOMAIN reg'.sessions
           \/ reg'.sessions[c].current_context # reg.sessions[c].current_context)
          => /\ last'.op \in {"SwitchContext", "UnregisterSession"}
             /\ last'.id = c]_vars

\* The callers that are in no call.
Idle == {p \in Callers : calls[p].op = "idle"}

\* C40: every call of the ContextManager returns and leaves the lock free:
\* the lock has a writer alone or readers alone, a caller holds it only
\* inside a call, no holder is left when all calls have returned, and
\* every caller that is in a call, GetClientContext with its change from
\* the read lock to the write lock and back included, gets out of it.
C40_CallsReturnAndFreeTheLock ==
    /\ [](/\ mu.writer # NoCaller => mu.readers = {}
          /\ (mu.readers \cup {mu.writer}) \cap Idle = {}
          /\ Idle = Callers => mu = Unlocked)
    /\ \A p \in Callers : (calls[p].op # "idle") ~> (calls[p].op = "idle")

\* GetClientContext has registered a client that had no session and holds
\* the read lock for the second time, while the other caller waits for
\* the write lock.
C40_Witness ==
    \E p, q \in Callers :
        /\ calls[p].op = "GetClientContext" /\ calls[p].pc = "rlocked_again"
        /\ calls[p].id \in DOMAIN reg.sessions
        /\ mu.readers = {p}
        /\ calls[q].pc = "Lock"

====
